---- MODULE Spec2Model ----
\* Universal Controller: the ticker/scheduler (ticker_manager.py), the entity
\* (sensor.py), the execute_now service (__init__.py) and the script execution
\* engine (execution_engine.py), as one state machine over the asyncio event
\* loop: every action is one uninterrupted run of a callback or coroutine from
\* one suspension point (await) to the next.
EXTENDS Integers, Sequences, FiniteSets, TLC

\* ------------------------------------------------------------------ bounds
MaxFires == 2          \* timer fires delivered in one behaviour of Spec
MaxManual == 1         \* execute_now requests in one behaviour of Spec
MaxUpdates == 1        \* update_configuration calls in one behaviour of Spec
MaxTickerFires == 6    \* timer fires delivered in one behaviour of SpecTicker
MaxTasks == 2          \* executions alive (waiting or running) at one time
MaxLifeFires == 2      \* timer fires delivered in one behaviour of SpecLife
MaxLifeUpdates == 1    \* update_configuration calls in one behaviour of SpecLife
MaxNow == 1            \* the clock's last reading in one behaviour of SpecLife
MaxEngineFires == 2    \* timer fires delivered in one behaviour of SpecEngine
MaxEngineManual == 1   \* execute_now requests in one behaviour of SpecEngine
MaxConfigUpdates == 1  \* update_configuration calls in one behaviour of SpecConfig
MaxEditFires == 2      \* timer fires delivered in one behaviour of SpecEdit
MaxEdits == 1          \* update_configuration calls in one behaviour of SpecEdit
MaxApiFires == 2       \* timer fires delivered in one behaviour of SpecManager
MaxApiCalls == 3       \* calls of the TickerManager in one behaviour of SpecManager
MaxOps == 2            \* calls of the storage object in flight at one time
MaxStorageCalls == 3   \* calls of the storage object in one behaviour

\* ------------------------------------------------------- program constants
ERROR_THRESHOLD == 5
DEFAULT_INTERVAL == 30
MIN_INTERVAL == 1
MAX_INTERVAL == 3600

None == "None"
Entities == {"e1"}
\* {domain, service, data}: one call of a host service.
ServiceCall(domain, service, entity_id) ==
    [domain |-> domain, service |-> service, data |-> [entity_id |-> entity_id]]
\* The calls a script of unknown text makes, in order.
Calls == <<ServiceCall("light", "turn_on", "light.a"),
           ServiceCall("light", "turn_off", "light.a")>>
RandIds == {"r1", "r2"}                \* outcomes of the random call id
UpdateIntervals == {0, 60, 5000}       \* interval arguments of update_entity
CreateIntervals == {0, 30, 3600, 5000} \* interval arguments of create_entity
ApiIntervals == {-5, 0, 30}            \* interval arguments of start_ticker
Templates == {"<p>"}                   \* html_template arguments of update_entity
Styles == {"p {}"}                     \* css_styles arguments of update_entity
Codes == {"", "code"}                  \* blank and non-blank script source
\* The scripts storage can hold when the entity is added: blank, whitespace
\* only, a script of unknown text, and
\* "services.turnOn('switch.fan'); return 'done'".
\* Scripts of known text that compare the number 1 with the string '1':
\* "return 1 == '1'" (eq), "return 1 === '1'" (seq), "return 1 != '1'" (ne),
\* "return 1 !== '1'" (sne); and the single expression "'done'" (expr).
CompareCodes == {"eq", "seq", "ne", "sne"}
ScriptCodes == CompareCodes \cup {"expr"}
StoredCodes == {"", " ", "code", "fan"}

VARIABLES
    v8Available,   \* whether "from py_mini_racer import MiniRacer" succeeds
    ent,           \* UniversalControllerEntity objects, by entity id
    registered,    \* TickerManager._entities (its key set)
    tickers,       \* TickerManager._tickers: entity id -> instance index, 0 = absent
    inst,          \* every TickerInstance object created so far
    hist,          \* per TickerInstance: failed runs seen (history, not program state)
    tasks,         \* coroutines alive on the event loop
    lastDone,      \* per entity: summary of the execution the last step completed (history)
    unhandled,     \* an exception left a service handler or a task (history)
    now,           \* datetime.now(), in units of the clock
    stored,        \* ConfigStorage: the saved configuration, by entity id
    host,          \* hass.states: the state of the host's entity light.a
    abandoned,     \* per entity: backend of an evaluation a timeout left on its worker
    store,         \* UniversalControllerStorage: [data, disk, ops, saved, done, called]
    render,        \* one call of render_html: [context, template, out, done]
    left           \* external events still allowed: [fires, manual, updates, api]

vars == <<v8Available, ent, registered, tickers, inst, hist, tasks, lastDone,
          unhandled, now, stored, host, abandoned, store, render, left>>

TaskIds == 1..MaxTasks

\* ------------------------------------------------------------- values
\* A Python "str | None": text is the string as a sequence of pieces, so that
\* f"prefix: {err}" is concatenation and str(TimeoutError()) is the empty string.
Null == [null |-> TRUE, text |-> <<>>]
Str(s) == [null |-> FALSE, text |-> s]

\* An exception travelling up the call chain (raised = FALSE: normal return).
NoExc == [raised |-> FALSE, type |-> "none", text |-> <<>>]
Exc(type, s) == [raised |-> TRUE, type |-> type, text |-> s]

Values == {"done"}                     \* what a script returns (None: nothing)
HostStates == {"off", "on"}            \* the states of the host's entity light.a

NoTask == [kind |-> "none", ent |-> None, inst |-> 0, pc |-> "none",
           code |-> "", backend |-> "none", probed |-> FALSE,
           available |-> FALSE, first |-> FALSE,
           calls |-> <<>>, idx |-> 0, result |-> None, exc |-> NoExc,
           outcome |-> "none", queued |-> <<>>, dispatched |-> <<>>,
           callFailed |-> FALSE, states |-> "none", atStart |-> "none",
           access |-> "none", invoked |-> <<>>]

\* The arguments of a request (None, hasInterval = FALSE: not given) and
\* whether the storage answered it.
NoReq == [html_template |-> None, css_styles |-> None, typescript_code |-> None,
          hasInterval |-> FALSE, interval |-> 0, saveOk |-> TRUE, loadOk |-> TRUE]

NoRun == [kind |-> "none", inst |-> 0, outcome |-> "none", code |-> "", req |-> NoReq,
          backend |-> "none", probed |-> FALSE, available |-> FALSE,
          first |-> FALSE, queued |-> <<>>,
          calls |-> <<>>, dispatched |-> <<>>, callFailed |-> FALSE,
          failed |-> FALSE, result |-> None, error |-> Null,
          atStart |-> "none", access |-> "none", invoked |-> <<>>]

NoRuns == [e \in Entities |-> NoRun]

\* No evaluation is left on a worker thread.
NoWorkers == [e \in Entities |-> "none"]

\* ------------------------------------------------- TickerInstance (object)
\* A Python "datetime | None".
NoTime == [null |-> TRUE, at |-> 0]
Time(at) == [null |-> FALSE, at |-> at]

NewTickerInstance(entity_id, interval) ==
    [entity_id |-> entity_id, interval |-> interval, is_running |-> FALSE,
     timer |-> FALSE, next_execution |-> NoTime, execution_count |-> 0,
     error_count |-> 0, last_error |-> Null, locked |-> 0, waiters |-> <<>>]

TickerStart_NoSchedule(t, at) == [t EXCEPT !.is_running = TRUE]

\* timer: _cancel_callback holds a live async_track_time_interval listener.
TickerStart(t, at) ==
    IF t.is_running THEN t
    ELSE [t EXCEPT !.is_running = TRUE, !.next_execution = Time(at + t.interval),
                   !.timer = TRUE]

TickerStop_KeepNext(t) == [t EXCEPT !.is_running = FALSE, !.timer = FALSE]

TickerStop(t) ==
    IF ~t.is_running THEN t
    ELSE [t EXCEPT !.is_running = FALSE, !.timer = FALSE,
                   !.next_execution = NoTime]

\* History of one ticker: failed runs, and timer fires delivered while it
\* was running.
NoHist == [fails |-> 0, consec |-> 0, maxConsec |-> 0, fired |-> 0]

\* ------------------------------------------------- TickerManager (tables)
\* m is the manager's state: [tickers, inst, hist].
StopTicker_KeepTimer(m, e) == [m EXCEPT !.tickers[e] = 0]

StopTicker_KeepEntry(m, e) ==
    IF m.tickers[e] # 0 THEN [m EXCEPT !.inst[m.tickers[e]] = TickerStop(@)] ELSE m

StopTicker(m, e) ==
    IF m.tickers[e] # 0
    THEN [m EXCEPT !.inst[m.tickers[e]] = TickerStop(@), !.tickers[e] = 0]
    ELSE m

StartTicker_NoStop(m, e, interval) ==
    IF interval <= 0 THEN m
    ELSE [m EXCEPT !.inst = Append(@, TickerStart(NewTickerInstance(e, interval), now)),
                   !.hist = Append(@, NoHist),
                   !.tickers[e] = Len(m.inst) + 1]

StartTicker(m, e, interval) ==
    IF interval <= 0 THEN m
    ELSE LET m1 == StopTicker(m, e)
             i == Len(m1.inst) + 1
         IN [m1 EXCEPT !.inst = Append(@, TickerStart(NewTickerInstance(e, interval), now)),
                       !.hist = Append(@, NoHist),
                       !.tickers[e] = i]

RestartTicker_InPlace(m, e, interval) ==
    IF m.tickers[e] # 0
    THEN [m EXCEPT !.inst[m.tickers[e]] =
              TickerStart([TickerStop(@) EXCEPT !.interval = interval], now)]
    ELSE StartTicker(m, e, interval)

RestartTicker(m, e, interval) == StartTicker(StopTicker(m, e), e, interval)

Manager == [tickers |-> tickers, inst |-> inst, hist |-> hist]

\* A TickerInstance that neither the table, nor a task, nor a live timer (the
\* listener holds the bound _execute_callback) refers to any more is freed
\* ("del self._tickers[entity_id]" dropped the last reference).
Freed == NewTickerInstance(None, 0)
Referenced(i, tk, tsk) ==
    \/ \E e \in Entities : tk[e] = i
    \/ \E t \in TaskIds : tsk[t].inst = i
Collect(ins, tk, tsk) ==
    [i \in 1..Len(ins) |-> IF Referenced(i, tk, tsk) \/ ins[i].timer THEN ins[i] ELSE Freed]
CollectHist(hs, tk, tsk) ==
    [i \in 1..Len(hs) |-> IF Referenced(i, tk, tsk) THEN hs[i] ELSE NoHist]

is_ticker_running(e) == tickers[e] # 0 /\ inst[tickers[e]].is_running

get_ticker_info(e) ==
    IF tickers[e] = 0 THEN None
    ELSE LET ticker == inst[tickers[e]]
         IN [entity_id |-> e, interval |-> ticker.interval,
             is_running |-> ticker.is_running,
             next_execution |-> ticker.next_execution,
             execution_count |-> ticker.execution_count,
             error_count |-> ticker.error_count, last_error |-> ticker.last_error]

\* ------------------------------------------------------ execution engine
\* _serviceCalls[callId] = {domain, service, data}: a JavaScript object keeps
\* its keys in insertion order; assigning to a key it already has replaces the
\* value at that key's place.
CallService(obj, id, call) ==
    IF \E k \in 1..Len(obj) : obj[k].id = id
    THEN [k \in 1..Len(obj) |-> IF obj[k].id = id THEN [id |-> id, call |-> call]
                                                  ELSE obj[k]]
    ELSE Append(obj, [id |-> id, call |-> call])

\* The _serviceCalls object after the script made `calls`, the k-th under ids[k].
RECURSIVE ServiceCallsObject(_, _)
ServiceCallsObject(calls, ids) ==
    IF calls = <<>> THEN <<>>
    ELSE CallService(ServiceCallsObject(SubSeq(calls, 1, Len(calls) - 1),
                                        SubSeq(ids, 1, Len(ids) - 1)),
                     ids[Len(ids)], calls[Len(calls)])

\* service_calls.items(): the calls in the order of the object's keys.
ItemsOf(obj) == [k \in 1..Len(obj) |-> obj[k].call]

CallPrefixes == {SubSeq(Calls, 1, n) : n \in 0..Len(Calls)}
IdSeqs(n) == [1..n -> RandIds]

\* ---- scripts whose text is known, as the pieces of their text on one line.
Tok(t, arg) == [t |-> t, arg |-> arg]

\* "services.turnOn('switch.fan'); return 'done'"
FanSource == <<Tok("services.turnOn", "switch.fan"), Tok(";", ""), Tok(" ", ""),
               Tok("return ", ""), Tok("lit", "done")>>

CompareSource(op) == <<Tok("return ", ""), Tok("num", "1"), Tok(" ", ""),
                        Tok(op, ""), Tok(" ", ""), Tok("lit", "1")>>

Source(code) ==
    CASE code = "fan" -> FanSource
      [] code = "eq" -> CompareSource("==")
      [] code = "seq" -> CompareSource("===")
      [] code = "ne" -> CompareSource("!=")
      [] code = "sne" -> CompareSource("!==")
      [] code = "expr" -> <<Tok("lit", "done")>>
      [] OTHER -> <<>>

\* Literals: "lit" a string in quotes, "num" a number. A bool is shown as
\* Python shows it.
Lits == {"lit", "num"}
Bool(b) == IF b THEN "True" ELSE "False"

\* What execute returns: a script's value, a bool, or nothing.
Results == Values \cup {None} \cup {Bool(b) : b \in BOOLEAN}

\* JavaScript: === and !== compare type and value; == and != convert a
\* string to a number when the other operand is a number.
JsCompare(a, op, b) ==
    LET strict == a.t = b.t /\ a.arg = b.arg
        loose == a.arg = b.arg
    IN CASE op = "===" -> strict
         [] op = "!==" -> ~strict
         [] op = "==" -> loose
         [] op = "!=" -> ~loose

\* Python: an int and a str are never equal.
PyCompare(a, op, b) ==
    LET equal == a.t = b.t /\ a.arg = b.arg
    IN IF op = "==" THEN equal ELSE ~equal

IsCompare(e) ==
    /\ Len(e) = 5
    /\ e[1].t \in Lits
    /\ e[5].t \in Lits

\* str.strip() of a script.
Strip_Identity(code) == code

Strip(code) == IF code \in {"", " "} THEN "" ELSE code

\* The textual replacements of _convert_basic_js_to_python, piece by piece.
Replacement(tok) ==
    CASE tok.t \in {"const ", "let ", "var "} -> Tok("", "")
      [] tok.t = "===" -> Tok("==", "")
      [] tok.t = "!==" -> Tok("!=", "")
      [] tok.t = "true" -> Tok("True", "")
      [] tok.t = "false" -> Tok("False", "")
      [] tok.t = "null" -> Tok("None", "")
      [] OTHER -> tok

Positions(src, t) == {k \in 1..Len(src) : src[k].t = t}
Min(S) == CHOOSE k \in S : \A j \in S : k <= j
Max(S) == CHOOSE k \in S : \A j \in S : k >= j

\* str.strip() and str.rstrip(";") of a piece of text.
StripText(src) ==
    LET keep == {k \in 1..Len(src) : src[k].t \notin {" ", ""}}
    IN IF keep = {} THEN <<>> ELSE SubSeq(src, Min(keep), Max(keep))
RStripSemi(src) ==
    LET keep == {k \in 1..Len(src) : src[k].t # ";"}
    IN IF keep = {} THEN <<>> ELSE SubSeq(src, 1, Max(keep))

\* _convert_basic_js_to_python: with a "return " in the text, the Python
\* source is what stands between the first "return " and the next one (or the
\* end), stripped, without trailing semicolons: the text before it is dropped.
ConvertBasicJsToPython(src) ==
    LET python_code == [k \in 1..Len(src) |-> Replacement(src[k])]
        returns == Positions(python_code, "return ")
    IN IF returns # {}
       THEN LET first == Min(returns)
                later == {k \in returns : k > first}
                last == IF later = {} THEN Len(python_code) ELSE Min(later) - 1
            IN RStripSemi(StripText(SubSeq(python_code, first + 1, last)))
       ELSE python_code

\* eval(python_code, ...) of the fallback: a literal is its value; "services"
\* is a dict with the one key "call", so services.turnOn raises AttributeError.
PythonEval(py) ==
    IF Len(py) = 1 /\ py[1].t \in Lits
    THEN [kind |-> "ok", result |-> py[1].arg, calls |-> <<>>, ids |-> <<>>, access |-> "none",
          invoked |-> <<>>, sets |-> None]
    ELSE IF IsCompare(py) /\ py[3].t \in {"==", "!="}
    THEN [kind |-> "ok", result |-> Bool(PyCompare(py[1], py[3].t, py[5])),
          calls |-> <<>>, ids |-> <<>>, access |-> "none",
          invoked |-> <<>>, sets |-> None]
    ELSE IF py # <<>> /\ py[1].t = "services.turnOn"
    THEN [kind |-> "raise", result |-> None, calls |-> <<>>, ids |-> <<>>, access |-> "none",
          invoked |-> <<>>, sets |-> None]
    ELSE [kind |-> "syntax", result |-> None, calls |-> <<>>, ids |-> <<>>, access |-> "none",
          invoked |-> <<>>, sets |-> None]

\* The script as a JavaScript function body: its statements run in order up
\* to the first return, and without a return the function's value is
\* undefined (None); services.turnOn(x) is
\* services.call('homeassistant', 'turn_on', {entity_id: x}) -> callService.
JsExpr(e) ==
    IF IsCompare(e) /\ e[3].t \in {"==", "===", "!=", "!=="}
    THEN Bool(JsCompare(e[1], e[3].t, e[5]))
    ELSE e[1].arg

RECURSIVE JsRun(_, _)
JsRun(src, calls) ==
    IF src = <<>> THEN [result |-> None, calls |-> calls]
    ELSE IF Head(src).t = "services.turnOn"
    THEN JsRun(Tail(src), Append(calls, ServiceCall("homeassistant", "turn_on",
                                                   Head(src).arg)))
    ELSE IF Head(src).t = "return " /\ Len(src) >= 2 /\ src[2].t \in Lits
    THEN [result |-> JsExpr(RStripSemi(StripText(Tail(src)))), calls |-> calls]
    ELSE JsRun(Tail(src), calls)

JsEval(src, ids) ==
    LET r == JsRun(src, <<>>)
    IN [kind |-> "ok", result |-> r.result, calls |-> r.calls, ids |-> ids, access |-> "none",
          invoked |-> <<>>, sets |-> None]

\* What evaluating a script of known text comes to under each backend.
ScriptOutcomes(code, backend) ==
    IF backend = "v8"
    THEN {JsEval(Source(code), ids) : ids \in IdSeqs(Len(JsRun(Source(code), <<>>).calls))}
    ELSE {PythonEval(ConvertBasicJsToPython(Source(code)))}

\* What evaluating the wrapped script on the worker can come to (V8): it
\* returns {result, serviceCalls}, throws, does not parse, or outlasts the
\* timeout; `calls` are the callService calls it made until then.
V8Outcomes ==
    {[kind |-> "ok", result |-> r, calls |-> c, ids |-> i, access |-> "none",
          invoked |-> <<>>, sets |-> None] :
        r \in Values, c \in CallPrefixes, i \in UNION {IdSeqs(n) : n \in 0..Len(Calls)}}
    \cup {[kind |-> k, result |-> None, calls |-> c, ids |-> i, access |-> "none",
          invoked |-> <<>>, sets |-> None] :
        k \in {"raise", "timeout"}, c \in CallPrefixes, i \in UNION {IdSeqs(n) : n \in 0..Len(Calls)}}
    \cup {[kind |-> "syntax", result |-> None, calls |-> <<>>, ids |-> <<>>, access |-> "none",
          invoked |-> <<>>, sets |-> None]}

\* The same for eval() of the converted script (Python fallback): services['call']
\* only creates a coroutine; "coro": the script's value is that coroutine.
FallbackOutcomes ==
    {[kind |-> "ok", result |-> r, calls |-> c, ids |-> <<>>, access |-> "none",
          invoked |-> <<>>, sets |-> None] :
        r \in Values, c \in {<<>>, Calls}}
    \cup {[kind |-> "coro", result |-> None, calls |-> SubSeq(Calls, 1, 1), ids |-> <<>>, access |-> "none",
          invoked |-> <<>>, sets |-> None]}
    \cup {[kind |-> k, result |-> None, calls |-> c, ids |-> <<>>, access |-> "none",
          invoked |-> <<>>, sets |-> None] :
        k \in {"raise", "timeout"}, c \in {<<>>, SubSeq(Calls, 1, 1)}}
    \cup {[kind |-> "syntax", result |-> None, calls |-> <<>>, ids |-> <<>>, access |-> "none",
          invoked |-> <<>>, sets |-> None]}

\* What the awaited evaluation raises in the event loop. The V8 wrapper
\* rethrows a script's error as 'User code error: ' + error.message.
EvalException(o, backend) ==
    CASE o.kind = "raise" -> Exc("EvalError",
                                 IF backend = "v8" THEN <<"User code error: ", "boom">>
                                 ELSE <<"boom">>)
      [] o.kind = "syntax" -> Exc("SyntaxError", <<"invalid syntax">>)
      [] o.kind = "timeout" -> Exc("TimeoutError", <<>>)
      [] OTHER -> NoExc

V8AfterWait_DispatchOnTimeout(o) ==
    IF o.kind \in {"ok", "timeout"}
    THEN [exc |-> EvalException(o, "v8"), calls |-> ItemsOf(ServiceCallsObject(o.calls, o.ids)),
          result |-> o.result]
    ELSE [exc |-> EvalException(o, "v8"), calls |-> <<>>, result |-> None]

V8AfterWait_DispatchAlways(o) ==
    [exc |-> EvalException(o, "v8"), calls |-> ItemsOf(ServiceCallsObject(o.calls, o.ids)),
     result |-> o.result]

\* _execute_with_v8 after the awaited evaluation: the exception it raises, or
\* the queued calls it goes on to dispatch and the result it then returns.
V8AfterWait(o) ==
    IF o.kind = "ok"
    THEN [exc |-> NoExc, calls |-> ItemsOf(ServiceCallsObject(o.calls, o.ids)),
          result |-> o.result]
    ELSE [exc |-> EvalException(o, "v8"), calls |-> <<>>, result |-> None]

\* _execute_with_python_fallback after the awaited eval(): a coroutine result
\* is awaited (its service call is made), any other value is returned.
FallbackAfterWait(o) ==
    IF o.kind = "coro"
    THEN [exc |-> NoExc, calls |-> SubSeq(o.calls, 1, 1), result |-> None]
    ELSE IF o.kind = "ok"
    THEN [exc |-> NoExc, calls |-> <<>>, result |-> o.result]
    ELSE [exc |-> EvalException(o, "fallback"), calls |-> <<>>, result |-> None]

\* _execute_with_python_fallback: except Exception -> RuntimeError(...).
FallbackRaise(exc) ==
    IF exc.raised
    THEN Exc("RuntimeError", <<"Python fallback execution error: ">> \o exc.text)
    ELSE NoExc

\* "from py_mini_racer import MiniRacer" at the head of _execute_with_v8.
V8Import(available) ==
    IF available THEN NoExc ELSE Exc("ImportError", <<"py-mini-racer not available">>)

Backend_NoFallback(available) == "v8"

\* execute: the V8 backend, or after its ImportError the Python fallback.
Backend(available) ==
    IF V8Import(available).raised /\ V8Import(available).type = "ImportError"
    THEN "fallback" ELSE "v8"

\* What `states` is in the script's scope. V8: hass_api["states"], a dict
\* copied from hass.states.async_all() and passed as JSON text; fallback:
\* self.hass.states, the host's state machine itself ("live").
StatesView(backend, h) == IF backend = "v8" THEN h ELSE "live"

\* What evaluating a script of unknown text that uses the `hass` and `states`
\* of its scope comes to, for view `view` and host state h. read: it returns
\* the state of light.a it finds in `states`; write: it sets that state to
\* "on" through `states` (V8: an assignment to the copy; fallback:
\* states.set); call: it calls the service through `hass` (V8:
\* hass.callService, which is callService; fallback: hass.services.call, the
\* host's blocking call for worker threads).
HostOutcomesOf(backend, view, h) ==
    IF backend = "v8"
    THEN {[kind |-> "ok", result |-> view, calls |-> <<>>, ids |-> <<>>,
           access |-> "read", invoked |-> <<>>, sets |-> None],
          [kind |-> "ok", result |-> "done", calls |-> <<>>, ids |-> <<>>,
           access |-> "write", invoked |-> <<>>, sets |-> None],
          [kind |-> "ok", result |-> "done", calls |-> SubSeq(Calls, 1, 1),
           ids |-> <<"r1">>, access |-> "call", invoked |-> <<>>, sets |-> None]}
    ELSE {[kind |-> "ok", result |-> h, calls |-> <<>>, ids |-> <<>>,
           access |-> "read", invoked |-> <<>>, sets |-> None],
          [kind |-> "ok", result |-> "done", calls |-> <<>>, ids |-> <<>>,
           access |-> "write", invoked |-> <<>>, sets |-> "on"],
          [kind |-> "ok", result |-> None, calls |-> <<>>, ids |-> <<>>,
           access |-> "call", invoked |-> SubSeq(Calls, 1, 1), sets |-> None]}

\* execute: except Exception -> RuntimeError("Code execution failed: ...").
ExecuteRaise(exc) ==
    IF exc.raised
    THEN Exc("RuntimeError", <<"Code execution failed: ">> \o exc.text)
    ELSE NoExc

\* ----------------------------------------------------------------- entity
\* engine_first is history: the backend the entity's engine ran its first
\* script on ("none": it has run none yet).
NewEntity ==
    [phase |-> "new", interval |-> DEFAULT_INTERVAL, html_template |-> "<div>",
     css_styles |-> "div {}", typescript_code |-> "code",
     state |-> "idle", execution_count |-> 0, last_error |-> Null,
     execution_result |-> None, engine_first |-> "none"]

\* _execute_typescript up to the await of the engine.
ExecuteTypescriptBegin(en) ==
    [en EXCEPT !.state = "executing", !.execution_count = @ + 1,
               !.last_error = Null,
               !.engine_first = IF @ = "none" THEN Backend(v8Available) ELSE @]

ExecuteTypescriptEnd_NoCatch(en, exc, result) ==
    IF exc.raised
    THEN [ent |-> en, exc |-> exc]
    ELSE [ent |-> [en EXCEPT !.execution_result = result, !.state = result],
          exc |-> NoExc]

\* _execute_typescript from the engine's return (or raise) on: the new entity
\* and what leaves the coroutine.
ExecuteTypescriptEnd(en, exc, result) ==
    IF exc.raised
    THEN [ent |-> [en EXCEPT !.last_error = Str(exc.text), !.state = "error",
                             !.execution_result = None],
          exc |-> NoExc]
    ELSE [ent |-> [en EXCEPT !.execution_result = result, !.state = result],
          exc |-> NoExc]

\* TickerManager.execute_entity: try/except Exception around the entity's run.
ExecuteEntityEnd(exc) == NoExc

TickerExecuteEnd_StopOnRuns(t, exc) ==
    LET t1 == [t EXCEPT !.execution_count = @ + 1, !.last_error = Null]
    IN IF t1.execution_count >= ERROR_THRESHOLD THEN TickerStop(t1) ELSE t1

\* TickerInstance._execute after execute_entity returned or raised.
TickerExecuteEnd(t, exc) ==
    IF ~exc.raised
    THEN [t EXCEPT !.execution_count = @ + 1, !.last_error = Null]
    ELSE LET t1 == [t EXCEPT !.error_count = @ + 1, !.last_error = Str(exc.text)]
         IN IF t1.error_count >= ERROR_THRESHOLD THEN TickerStop(t1) ELSE t1

\* asyncio.Lock.release
Release(t) == [t EXCEPT !.locked = 0]

\* The history of a ticker's runs: failed runs in total, in a row since the
\* last success, and the longest row so far.
HistAfter(h, failed) ==
    IF failed
    THEN [h EXCEPT !.fails = @ + 1, !.consec = @ + 1,
                   !.maxConsec = IF h.consec + 1 > @ THEN h.consec + 1 ELSE @]
    ELSE [h EXCEPT !.consec = 0]

\* ConfigStorage's record of one entity (has = FALSE: nothing saved).
NoConfig == [has |-> FALSE, html_template |-> "", css_styles |-> "",
             typescript_code |-> "", interval |-> 0]

\* async_save_entity_config(entity_id, html, css, code, interval)
ConfigOf(en) == [has |-> TRUE, html_template |-> en.html_template,
                 css_styles |-> en.css_styles,
                 typescript_code |-> en.typescript_code, interval |-> en.interval]

\* _load_configuration: try/except Exception around the load (loadOk = FALSE:
\* the load raises).
LoadConfiguration(en, config, loadOk) ==
    IF loadOk /\ config.has
    THEN [en EXCEPT !.html_template = config.html_template,
                    !.css_styles = config.css_styles,
                    !.typescript_code = config.typescript_code,
                    !.interval = config.interval]
    ELSE en

SaveConfiguration_NoCatch(config, en, saveOk) ==
    IF saveOk THEN [config |-> ConfigOf(en), exc |-> NoExc]
    ELSE [config |-> config, exc |-> Exc("OSError", <<"write failed">>)]

\* _save_configuration: try/except Exception around the save (saveOk = FALSE:
\* the save raises): the new record and what leaves the coroutine.
SaveConfiguration(config, en, saveOk) ==
    IF saveOk THEN [config |-> ConfigOf(en), exc |-> NoExc]
    ELSE [config |-> config, exc |-> NoExc]

ClampInterval_None(interval) == interval

\* max(1, min(3600, interval))
ClampInterval(interval) ==
    IF interval > MAX_INTERVAL THEN MAX_INTERVAL
    ELSE IF interval < MIN_INTERVAL THEN MIN_INTERVAL ELSE interval

\* ------------------------------------------------------ template renderer
\* Strings of the renderer are sequences of characters, so that slicing,
\* splitting and stripping are what they are in Python.
ModeText == <<"m", "o", "d", "e">>
FlagText == <<"f", "l", "a", "g">>
AutoText == <<"a", "u", "t", "o">>
OffText == <<"o", "f", "f">>
ContentText == <<"X">>
VarNames == {ModeText, FlagText}
Literals == {AutoText, OffText, ModeText}    \* the value of {% if variable == value %}

\* The values of a context: str, bool and int, each with what _format_value,
\* str() and bool() make of it.
CtxStr(s) == [type |-> "str", format |-> s, str |-> s, bool |-> s # <<>>]
CtxTrue == [type |-> "bool", format |-> <<"t", "r", "u", "e">>,
            str |-> <<"T", "r", "u", "e">>, bool |-> TRUE]
CtxFalse == [type |-> "bool", format |-> <<"f", "a", "l", "s", "e">>,
             str |-> <<"F", "a", "l", "s", "e">>, bool |-> FALSE]
CtxInt(n) == [type |-> "int", format |-> <<IF n = 0 THEN "0" ELSE "1">>,
              str |-> <<IF n = 0 THEN "0" ELSE "1">>, bool |-> n # 0]
CtxValues == {CtxStr(AutoText), CtxStr(OffText), CtxStr(<<>>), CtxTrue, CtxFalse, CtxInt(0)}
Contexts == UNION {[S -> CtxValues] : S \in SUBSET VarNames}

\* The template "{% if <condition> %}<content>{% endif %}".
IfEquals(var, value) ==
    [condition |-> var \o <<" ", "=", "=", " ">> \o value, content |-> ContentText]
IfTruthy(var) == [condition |-> var, content |-> ContentText]
TemplatesOfIf ==
    {IfEquals(var, value) : var \in VarNames, value \in Literals}
    \cup {IfTruthy(var) : var \in VarNames}

NoRender == [context |-> <<>>, template |-> IfTruthy(<<>>), out |-> <<>>, done |-> FALSE]

\* str.strip()
RECURSIVE StripChars(_)
StripChars(s) ==
    IF s = <<>> THEN s
    ELSE IF Head(s) = " " THEN StripChars(Tail(s))
    ELSE IF s[Len(s)] = " " THEN StripChars(SubSeq(s, 1, Len(s) - 1))
    ELSE s

\* s[2:-2]
Slice2(s) == IF Len(s) <= 4 THEN <<>> ELSE SubSeq(s, 3, Len(s) - 2)

\* The first place where pat occurs in s, 0 when it does not.
Occurrences(s, pat) == {i \in 1..(Len(s) - Len(pat) + 1) : SubSeq(s, i, i + Len(pat) - 1) = pat}
FindChars(s, pat) ==
    IF Occurrences(s, pat) = {} THEN 0
    ELSE CHOOSE i \in Occurrences(s, pat) : \A j \in Occurrences(s, pat) : i <= j

\* _get_nested_value for a path without a dot: found says whether the key is
\* in the context (KeyError otherwise).
GetNestedValue(context, path) ==
    IF path \in DOMAIN context THEN [found |-> TRUE, value |-> context[path]]
    ELSE [found |-> FALSE, value |-> CtxStr(<<>>)]

\* replace_var of _apply_variable_substitutions on the text "{{<inner>}}".
ReplaceVar(inner, context) ==
    LET var_path == StripChars(inner)
        got == GetNestedValue(context, var_path)
    IN IF got.found THEN got.value.format
       ELSE <<"{", "{", " ">> \o var_path \o <<" ", "}", "}">>

\* _evaluate_condition, for conditions without "!=", ">" and "<".
EvaluateCondition(condition, context) ==
    LET c == Slice2(ReplaceVar(condition, context))
        at == FindChars(c, <<" ", "=", "=", " ">>)
    IN IF at > 0
       THEN StripChars(SubSeq(c, 1, at - 1)) = StripChars(SubSeq(c, at + 4, Len(c)))
       ELSE LET got == GetNestedValue(context, StripChars(c))
            IN got.found /\ got.value.bool

\* replace_if of _apply_conditionals on the one block of the template.
ApplyConditionals(template, context) ==
    IF EvaluateCondition(StripChars(template.condition), context)
    THEN template.content ELSE <<>>

\* render_html: the template has no {{...}}, no loop and no function call, so
\* the other three passes leave it as it is.
RenderHtml(template, context) == ApplyConditionals(template, context)

Render ==
    /\ ~render.done
    /\ render' = [render EXCEPT !.out = RenderHtml(render.template, render.context),
                                !.done = TRUE]
    /\ UNCHANGED <<v8Available, ent, registered, tickers, inst, hist, tasks, lastDone,
                   unhandled, now, stored, host, abandoned, store, left>>

\* ---------------------------------------------------------------- storage
\* UniversalControllerStorage, one object shared by the entities: data is
\* self._data, disk what self._store holds (what its async_load returns),
\* ops the calls in flight. saved (per entity id, the configuration the last
\* save or remove put into data; has = FALSE after a remove), done (the call
\* the last step completed) and called (the calls made so far) are history.
StorageIds == {"sensor.a", "sensor.b"}
OpIds == 1..MaxOps
StorageConfigs ==
    {ConfigOf(NewEntity),
     ConfigOf([NewEntity EXCEPT !.html_template = "<p>", !.css_styles = "p {}",
                                !.typescript_code = "", !.interval = 60])}
NoData == [k \in StorageIds |-> NoConfig]
Untouched == [NoConfig EXCEPT !.html_template = "untouched"]
NoOp == [kind |-> "none", key |-> None, config |-> NoConfig, pc |-> "none",
         read |-> NoData, result |-> NoConfig]
NoStorage == [data |-> NoData, disk |-> NoData, ops |-> [o \in OpIds |-> NoOp],
              saved |-> [k \in StorageIds |-> Untouched], done |-> NoOp,
              called |-> <<>>]

\* "not self._data": a dict without keys is false.
IsEmpty(data) == \A k \in StorageIds : ~data[k].has

AsyncSaveEntityConfig_Replace(data, key, config) == [NoData EXCEPT ![key] = config]

\* self._data[entity_id] = {...}
AsyncSaveEntityConfig(data, key, config) == [data EXCEPT ![key] = config]

\* self._data.pop(entity_id, None)
AsyncRemoveEntityConfig(data, key) == [data EXCEPT ![key] = NoConfig]

\* self._data.get(entity_id)
AsyncLoadEntityConfig(data, key) == data[key]

\* What async_load_entity_config(key) returns when it is called with no other
\* call in flight: an empty self._data is loaded from the store first.
Stored(st, key) ==
    AsyncLoadEntityConfig(IF IsEmpty(st.data) THEN st.disk ELSE st.data, key)

\* One of the three methods from the return of "await self.async_load()", with
\* self._data = data, to its next suspension: save and remove change data and
\* hand it to self._store.async_save, which holds it from then on; load
\* returns.
AfterLoad(st, o, op, data) ==
    IF op.kind = "load"
    THEN [st EXCEPT !.data = data, !.ops[o] = NoOp,
                    !.done = [op EXCEPT !.pc = "done",
                                        !.result = AsyncLoadEntityConfig(data, op.key)]]
    ELSE LET d == IF op.kind = "save"
                  THEN AsyncSaveEntityConfig(data, op.key, op.config)
                  ELSE AsyncRemoveEntityConfig(data, op.key)
         IN [st EXCEPT !.data = d, !.disk = d, !.ops[o] = [op EXCEPT !.pc = "save"],
                       !.saved[op.key] = IF op.kind = "save" THEN op.config ELSE NoConfig,
                       !.done = NoOp]

Others == <<v8Available, ent, registered, tickers, inst, hist, tasks, lastDone,
            unhandled, now, stored, host, abandoned, render, left>>

\* A call of async_save_entity_config, async_load_entity_config or
\* async_remove_entity_config up to its first suspension: async_load awaits the
\* store only when self._data is empty.
StorageCall(o, kind, key, config) ==
    /\ store.ops[o].kind = "none"
    /\ \A p \in OpIds : p < o => store.ops[p].kind # "none"
    /\ Len(store.called) < MaxStorageCalls
    /\ kind # "save" => config = NoConfig
    /\ LET op == [NoOp EXCEPT !.kind = kind, !.key = key, !.config = config,
                              !.pc = "load", !.read = store.disk]
           st == [store EXCEPT !.called = Append(@, [kind |-> kind, key |-> key])]
       IN store' = IF IsEmpty(store.data)
                   THEN [st EXCEPT !.ops[o] = op, !.done = NoOp]
                   ELSE AfterLoad(st, o, op, store.data)
    /\ UNCHANGED Others

\* self._store.async_load() returns: "self._data = stored_data or {}", and the
\* method goes on. The store's answer is what it held when the load began or
\* what it holds now (late).
LoadReturn(o, late) ==
    /\ store.ops[o].pc = "load"
    /\ store' = AfterLoad(store, o, store.ops[o],
                          IF late THEN store.disk ELSE store.ops[o].read)
    /\ UNCHANGED Others

\* self._store.async_save(self._data) returns and the method with it.
SaveReturn(o) ==
    /\ store.ops[o].pc = "save"
    /\ store' = [store EXCEPT !.ops[o] = NoOp, !.done = [store.ops[o] EXCEPT !.pc = "done"]]
    /\ UNCHANGED Others

InitStorage ==
    /\ v8Available = FALSE
    /\ ent = [e \in Entities |-> NewEntity]
    /\ registered = {}
    /\ tickers = [e \in Entities |-> 0]
    /\ inst = <<>>
    /\ hist = <<>>
    /\ tasks = [t \in TaskIds |-> NoTask]
    /\ lastDone = NoRuns
    /\ unhandled = FALSE
    /\ now = 0
    /\ stored = [e \in Entities |-> NoConfig]
    /\ host = "off"
    /\ abandoned = NoWorkers
    /\ store \in {[NoStorage EXCEPT !.disk = d] : d \in [StorageIds -> StorageConfigs \cup {NoConfig}]}
    /\ render = NoRender
    /\ left = [fires |-> 0, manual |-> 0, updates |-> 0, api |-> 0]

\* Calls from the entities' coroutines, interleaved at their awaits.
NextStorage ==
    \/ \E o \in OpIds, kind \in {"save", "load", "remove"}, key \in StorageIds,
          config \in StorageConfigs \cup {NoConfig} : StorageCall(o, kind, key, config)
    \/ \E o \in OpIds, late \in BOOLEAN : LoadReturn(o, late)
    \/ \E o \in OpIds : SaveReturn(o)

SpecStorage == InitStorage /\ [][NextStorage]_vars

\* One call at a time: the next call begins when the last has returned.
NextStorageSeq ==
    \/ \E kind \in {"save", "load", "remove"}, key \in StorageIds,
          config \in StorageConfigs \cup {NoConfig} :
          /\ \A p \in OpIds : store.ops[p].kind = "none"
          /\ StorageCall(1, kind, key, config)
    \/ \E o \in OpIds, late \in BOOLEAN : LoadReturn(o, late)
    \/ \E o \in OpIds : SaveReturn(o)

SpecStorageSeq == InitStorage /\ [][NextStorageSeq]_vars

\* ------------------------------------------------------------------- Init
Init ==
    /\ v8Available \in BOOLEAN
    /\ ent = [e \in Entities |-> NewEntity]
    /\ registered = {}
    /\ tickers = [e \in Entities |-> 0]
    /\ inst = <<>>
    /\ hist = <<>>
    /\ tasks = [t \in TaskIds |-> NoTask]
    /\ lastDone = NoRuns
    /\ unhandled = FALSE
    /\ now = 0
    /\ stored = [e \in Entities |-> NoConfig]
    /\ host = "off"
    /\ abandoned = NoWorkers
    /\ store = NoStorage
    /\ render = NoRender
    /\ left = [fires |-> MaxFires, manual |-> MaxManual, updates |-> MaxUpdates, api |-> 0]

FreeSlots == {t \in TaskIds : tasks[t].kind = "none"}
FreeSlot == CHOOSE t \in FreeSlots : \A u \in FreeSlots : t <= u

\* The summary of a finished run of task record tk.
RunOf(tk, kind, exc, result) ==
    [kind |-> tk.kind, inst |-> tk.inst, outcome |-> kind, code |-> tk.code,
     req |-> NoReq,
     backend |-> tk.backend, probed |-> tk.probed, available |-> tk.available,
     first |-> tk.first, queued |-> tk.queued,
     calls |-> tk.calls, dispatched |-> tk.dispatched, callFailed |-> tk.callFailed,
     failed |-> exc.raised, result |-> IF exc.raised THEN None ELSE result,
     error |-> IF exc.raised THEN Str(exc.text) ELSE Null,
     atStart |-> tk.atStart, access |-> tk.access, invoked |-> tk.invoked]

\* ------------------------------------------------------ entity life cycle
\* async_added_to_hass: register, load the stored configuration, then start
\* the ticker if interval > 0.
AddedToHass(e, loadOk) ==
    /\ ent[e].phase = "new"
    /\ LET e1 == LoadConfiguration(ent[e], stored[e], loadOk)
           m == IF e1.interval > 0
                THEN StartTicker(Manager, e, e1.interval) ELSE Manager
       IN /\ ent' = [ent EXCEPT ![e] = [e1 EXCEPT !.phase = "added"]]
          /\ tickers' = m.tickers
          /\ inst' = m.inst
          /\ hist' = m.hist
          /\ lastDone' = IF e1.interval > 0
                         THEN [NoRuns EXCEPT ![e] =
                                 [NoRun EXCEPT !.kind = "start",
                                               !.req = [NoReq EXCEPT !.loadOk = loadOk]]]
                         ELSE NoRuns
    /\ registered' = registered \cup {e}
    /\ UNCHANGED <<v8Available, abandoned, store, render, tasks, unhandled, now, stored, host, left>>

\* async_will_remove_from_hass -> TickerManager.unregister_entity.
RemovedFromHass(e) ==
    /\ ent[e].phase = "added"
    /\ ent' = [ent EXCEPT ![e].phase = "removed"]
    /\ LET m == IF tickers[e] # 0 THEN StopTicker(Manager, e) ELSE Manager
       IN /\ tickers' = m.tickers
          /\ inst' = Collect(m.inst, m.tickers, tasks)
          /\ hist' = CollectHist(m.hist, m.tickers, tasks)
    /\ registered' = registered \ {e}
    /\ lastDone' = NoRuns
    /\ UNCHANGED <<v8Available, abandoned, store, render, tasks, unhandled, now, stored, host, left>>

\* update_configuration(html_template, css_styles, typescript_code, interval);
\* None or hasInterval = FALSE: the argument is not given.
IntervalChanged_Given(hasInterval, interval, current) == hasInterval

\* "if interval is not None and interval != self._interval": the argument is
\* compared as given, before it is clamped.
IntervalChanged(hasInterval, interval, current) == hasInterval /\ interval # current

UpdateConfiguration(e, html_template, css_styles, typescript_code, hasInterval, interval, saveOk) ==
    /\ ent[e].phase = "added"
    /\ left.updates > 0
    /\ left' = [left EXCEPT !.updates = @ - 1]
    /\ LET e0 == ent[e]
           h == html_template # None /\ html_template # e0.html_template
           c == css_styles # None /\ css_styles # e0.css_styles
           t == typescript_code # None /\ typescript_code # e0.typescript_code
           change == IntervalChanged(hasInterval, interval, e0.interval)
           e2 == [e0 EXCEPT
                    !.html_template = IF h THEN html_template ELSE @,
                    !.css_styles = IF c THEN css_styles ELSE @,
                    !.typescript_code = IF t THEN typescript_code ELSE @,
                    !.interval = IF change THEN ClampInterval(interval) ELSE @]
           m == IF ~change THEN Manager
                ELSE IF e2.interval > 0 THEN RestartTicker(Manager, e, e2.interval)
                ELSE StopTicker(Manager, e)
           updated == h \/ c \/ t \/ change
           sv == IF updated THEN SaveConfiguration(stored[e], e2, saveOk)
                 ELSE [config |-> stored[e], exc |-> NoExc]
       IN /\ ent' = [ent EXCEPT ![e] = e2]
          /\ tickers' = m.tickers
          /\ inst' = Collect(m.inst, m.tickers, tasks)
          /\ hist' = CollectHist(m.hist, m.tickers, tasks)
          /\ stored' = [stored EXCEPT ![e] = sv.config]
          /\ unhandled' = (unhandled \/ sv.exc.raised)
          /\ lastDone' = [NoRuns EXCEPT ![e] =
                 [NoRun EXCEPT
                    !.kind = IF change /\ e2.interval > 0 THEN "restart" ELSE "update",
                    !.inst = tickers[e],
                    !.outcome = IF updated THEN "updated" ELSE "same",
                    !.req = [html_template |-> html_template,
                             css_styles |-> css_styles,
                             typescript_code |-> typescript_code,
                             hasInterval |-> hasInterval,
                             interval |-> IF hasInterval THEN interval ELSE 0,
                             saveOk |-> saveOk, loadOk |-> TRUE]]]
    /\ UNCHANGED <<v8Available, abandoned, store, render, registered, tasks, now, host>>

\* ---------------------------------------------------------- executions
\* The end of one execution: _execute_typescript's tail, then for a timer task
\* execute_entity's and _execute's tails and the release of the lock; for
\* execute_now the return to the service handler.
Complete(t, tk, exc, result, kind) ==
    LET e == tk.ent
        ete == ExecuteTypescriptEnd(ent[e], exc, result)
    IN /\ ent' = [ent EXCEPT ![e] = ete.ent]
       /\ lastDone' = [NoRuns EXCEPT ![e] = RunOf(tk, kind, exc, result)]
       /\ tasks' = [tasks EXCEPT ![t] = NoTask]
       /\ IF tk.kind = "manual"
          THEN /\ unhandled' = (unhandled \/ ete.exc.raised)
               /\ UNCHANGED <<inst, hist>>
          ELSE /\ inst' = Collect([inst EXCEPT ![tk.inst] =
                                  Release(TickerExecuteEnd(@, ExecuteEntityEnd(ete.exc)))],
                               tickers, tasks')
               /\ hist' = CollectHist([hist EXCEPT ![tk.inst] = HistAfter(@, exc.raised)],
                                      tickers, tasks')
               /\ UNCHANGED unhandled

\* engine.execute(code) of task record tk up to the awaited evaluation: the
\* import of the V8 binding is tried and the backend follows from it.
EngineExecute(tk) ==
    [tk EXCEPT !.pc = "eval", !.probed = TRUE, !.available = v8Available,
               !.backend = Backend(v8Available),
               !.states = StatesView(Backend(v8Available), host), !.atStart = host,
               !.first = (ent[tk.ent].engine_first = "none")]

\* _execute from the acquired lock (instAcq: inst with the lock taken by t) to
\* its first await that suspends: execute_entity -> _execute_typescript ->
\* engine.execute -> the evaluation on the worker.
RunLocked(t, instAcq) ==
    LET tk == tasks[t]
        e == tk.ent
        i == tk.inst
    IN IF e \notin registered \/ Strip(ent[e].typescript_code) = ""
       THEN /\ tasks' = [tasks EXCEPT ![t] = NoTask]
            /\ inst' = Collect([instAcq EXCEPT ![i] =
                                  Release(TickerExecuteEnd(@, ExecuteEntityEnd(NoExc)))],
                               tickers, tasks')
            /\ hist' = CollectHist([hist EXCEPT ![i] = HistAfter(@, FALSE)],
                                   tickers, tasks')
            /\ lastDone' = [NoRuns EXCEPT ![e] =
                    RunOf([tk EXCEPT !.code = ent[e].typescript_code],
                          IF e \notin registered THEN "unregistered" ELSE "blank",
                          NoExc, None)]
            /\ UNCHANGED ent
       ELSE /\ inst' = instAcq
            /\ ent' = [ent EXCEPT ![e] = ExecuteTypescriptBegin(@)]
            /\ tasks' = [tasks EXCEPT ![t] = EngineExecute(
                            [tk EXCEPT !.code = ent[e].typescript_code])]
            /\ lastDone' = NoRuns
            /\ UNCHANGED hist

ExecuteCallback_DropWhenBusy(t) == t.is_running /\ t.locked = 0

\* _execute_callback: whether the fire creates the task of _execute.
ExecuteCallback(t) == t.is_running

\* _execute_callback: the periodic timer of TickerInstance i fires.
TimerFire(i) ==
    /\ inst[i].timer
    /\ left.fires > 0
    /\ FreeSlots # {}
    /\ left' = [left EXCEPT !.fires = @ - 1]
    /\ hist' = IF inst[i].is_running THEN [hist EXCEPT ![i].fired = @ + 1] ELSE hist
    /\ IF ExecuteCallback(inst[i])
       THEN /\ tasks' = [tasks EXCEPT ![FreeSlot] =
                         [NoTask EXCEPT !.kind = "timer", !.ent = inst[i].entity_id,
                                        !.inst = i, !.pc = "created"]]
            /\ inst' = [inst EXCEPT ![i].next_execution = Time(now + inst[i].interval)]
       ELSE UNCHANGED <<tasks, inst>>
    /\ lastDone' = NoRuns
    /\ UNCHANGED <<v8Available, abandoned, store, render, ent, registered, tickers, unhandled, now, stored, host>>

\* The task of _execute runs for the first time: async with self._execution_lock.
TimerTaskStart(t) ==
    /\ tasks[t].pc = "created"
    /\ LET i == tasks[t].inst
       IN IF inst[i].locked = 0 /\ inst[i].waiters = <<>>
          THEN RunLocked(t, [inst EXCEPT ![i].locked = t])
          ELSE /\ inst' = [inst EXCEPT ![i].waiters = Append(@, t)]
               /\ tasks' = [tasks EXCEPT ![t].pc = "lock"]
               /\ lastDone' = NoRuns
               /\ UNCHANGED <<ent, hist>>
    /\ UNCHANGED <<v8Available, abandoned, store, render, registered, tickers, unhandled, now, stored, host, left>>

\* The first waiter of a released lock is woken and takes it.
LockGranted(t) ==
    /\ tasks[t].pc = "lock"
    /\ LET i == tasks[t].inst
       IN /\ inst[i].locked = 0
          /\ inst[i].waiters # <<>>
          /\ Head(inst[i].waiters) = t
          /\ RunLocked(t, [inst EXCEPT ![i].locked = t, ![i].waiters = Tail(@)])
    /\ UNCHANGED <<v8Available, abandoned, store, render, registered, tickers, unhandled, now, stored, host, left>>

\* execute_now_service: entity_obj._execute_typescript(), up to its first await.
ExecuteNow(e) ==
    /\ ent[e].phase = "added"
    /\ left.manual > 0
    /\ FreeSlots # {}
    /\ left' = [left EXCEPT !.manual = @ - 1]
    /\ LET tk == [NoTask EXCEPT !.kind = "manual", !.ent = e,
                                !.code = ent[e].typescript_code]
       IN IF Strip(ent[e].typescript_code) = ""
          THEN /\ lastDone' = [NoRuns EXCEPT ![e] = RunOf(tk, "blank", NoExc, None)]
               /\ UNCHANGED <<ent, tasks>>
          ELSE /\ ent' = [ent EXCEPT ![e] = ExecuteTypescriptBegin(@)]
               /\ tasks' = [tasks EXCEPT ![FreeSlot] = EngineExecute(tk)]
               /\ lastDone' = NoRuns
    /\ UNCHANGED <<v8Available, abandoned, store, render, registered, tickers, inst, hist, unhandled, now, stored, host>>

\* try/except around one hass.services.async_call of the dispatch loop.
DispatchCatch(exc) == NoExc

ServiceError == Exc("ServiceNotFound", <<"service not found">>)

\* What leaves execute() for an exception raised inside the chosen backend.
Wrapped(exc, backend) ==
    IF backend = "v8" THEN ExecuteRaise(exc) ELSE ExecuteRaise(FallbackRaise(exc))

\* The results the awaited evaluation of task record tk can come to.
Outcomes(tk) ==
    IF Source(tk.code) # <<>> THEN ScriptOutcomes(tk.code, tk.backend)
    ELSE HostOutcomesOf(tk.backend, tk.states, host)
         \cup IF tk.backend = "v8" THEN {o \in V8Outcomes : Len(o.ids) = Len(o.calls)}
              ELSE FallbackOutcomes

\* The awaited evaluation ends with outcome o (wait_for returns or raises).
\* wait_for cancels the future of run_in_executor when the timeout expires; the
\* worker thread is not interrupted: `lingers` says whether the evaluation is
\* still running on it when the timeout is reported.
EvalDone(t, o, lingers) ==
    /\ tasks[t].pc = "eval"
    /\ o \in Outcomes(tasks[t])
    /\ lingers => o.kind = "timeout" /\ abandoned[tasks[t].ent] = "none"
    /\ LET v8 == tasks[t].backend = "v8"
           a == IF v8 THEN V8AfterWait(o) ELSE FallbackAfterWait(o)
           tk == [tasks[t] EXCEPT !.queued = o.calls, !.outcome = o.kind,
                                  !.access = o.access, !.invoked = o.invoked]
       IN IF a.calls = <<>>
          THEN Complete(t, tk, Wrapped(a.exc, tk.backend), a.result, o.kind)
          ELSE /\ tasks' = [tasks EXCEPT ![t] =
                      [tk EXCEPT !.pc = IF v8 THEN "dispatch" ELSE "coro",
                                 !.calls = a.calls, !.idx = 1, !.result = a.result,
                                 !.exc = a.exc, !.dispatched = <<a.calls[1]>>]]
               /\ lastDone' = NoRuns
               /\ UNCHANGED <<ent, inst, hist, unhandled>>
    /\ host' = IF o.sets # None THEN o.sets ELSE host
    /\ abandoned' = IF lingers THEN [abandoned EXCEPT ![tasks[t].ent] = tasks[t].backend]
                    ELSE abandoned
    /\ UNCHANGED <<v8Available, registered, tickers, now, stored, store, render, left>>

\* The evaluation a timeout left on its worker thread comes to its end there;
\* what it returns or raises goes to the cancelled future and is dropped. Under
\* the fallback the script holds the live hass object and may have set the
\* state of light.a (sets) in the meantime.
WorkerEnd(e, sets) ==
    /\ abandoned[e] # "none"
    /\ sets # None => abandoned[e] = "fallback"
    /\ abandoned' = [abandoned EXCEPT ![e] = "none"]
    /\ host' = IF sets # None THEN sets ELSE host
    /\ lastDone' = NoRuns
    /\ UNCHANGED <<v8Available, ent, registered, tickers, inst, hist, tasks,
                   unhandled, now, stored, store, render, left>>

\* The awaited hass.services.async_call of the dispatch loop returns (ok) or
\* raises; the loop goes on with the next call or execute returns the result.
DispatchReturn(t, ok) ==
    /\ tasks[t].pc = "dispatch"
    /\ LET tk == [tasks[t] EXCEPT !.callFailed = @ \/ ~ok]
           exc == DispatchCatch(IF ok THEN NoExc ELSE ServiceError)
       IN IF exc.raised
          THEN Complete(t, tk, Wrapped(exc, tk.backend), None, tk.outcome)
          ELSE IF tk.idx < Len(tk.calls)
          THEN /\ tasks' = [tasks EXCEPT ![t] =
                      [tk EXCEPT !.idx = @ + 1,
                                 !.dispatched = Append(@, tk.calls[tk.idx + 1])]]
               /\ lastDone' = NoRuns
               /\ UNCHANGED <<ent, inst, hist, unhandled>>
          ELSE Complete(t, tk, Wrapped(tk.exc, tk.backend), tk.result, tk.outcome)
    /\ UNCHANGED <<v8Available, abandoned, store, render, registered, tickers, now, stored, host, left>>

\* Python fallback: "result = await result" on the coroutine of services['call']
\* returns (ok) or raises.
CoroReturn(t, ok) ==
    /\ tasks[t].pc = "coro"
    /\ LET tk == [tasks[t] EXCEPT !.callFailed = ~ok]
       IN IF ok
          THEN Complete(t, tk, Wrapped(tk.exc, tk.backend), tk.result, tk.outcome)
          ELSE Complete(t, tk, Wrapped(ServiceError, tk.backend), None, tk.outcome)
    /\ UNCHANGED <<v8Available, abandoned, store, render, registered, tickers, now, stored, host, left>>

\* py-mini-racer is installed while the process runs: from now on the import
\* succeeds.
Install ==
    /\ ~v8Available
    /\ v8Available' = TRUE
    /\ lastDone' = NoRuns
    /\ UNCHANGED <<ent, registered, tickers, inst, hist, tasks, unhandled, now, stored,
                   host, abandoned, store, render, left>>

\* Time passes.
Tick ==
    /\ now < MaxNow
    /\ now' = now + 1
    /\ lastDone' = NoRuns
    /\ UNCHANGED <<v8Available, abandoned, store, render, ent, registered, tickers, inst, hist, tasks,
                   unhandled, stored, host, left>>

\* Another integration changes the state of light.a.
HostChange(h) ==
    /\ h # host
    /\ host' = h
    /\ lastDone' = NoRuns
    /\ UNCHANGED <<v8Available, abandoned, store, render, ent, registered, tickers, inst, hist, tasks,
                   unhandled, now, stored, left>>

AllOutcomes ==
    V8Outcomes \cup FallbackOutcomes
    \cup UNION {ScriptOutcomes(c, b) : c \in {"fan"} \cup ScriptCodes,
                                       b \in {"v8", "fallback"}}

Next ==
    \/ \E e \in Entities : AddedToHass(e, TRUE)
    \/ \E e \in Entities : RemovedFromHass(e)
    \/ \E e \in Entities, code \in Codes \cup {None}, hasInterval \in BOOLEAN,
          interval \in UpdateIntervals :
          UpdateConfiguration(e, None, None, code, hasInterval, interval, TRUE)
    \/ \E i \in 1..Len(inst) : TimerFire(i)
    \/ \E t \in TaskIds : TimerTaskStart(t)
    \/ \E t \in TaskIds : LockGranted(t)
    \/ \E e \in Entities : ExecuteNow(e)
    \/ \E t \in TaskIds, o \in AllOutcomes : EvalDone(t, o, FALSE)
    \/ \E t \in TaskIds, ok \in BOOLEAN : DispatchReturn(t, ok)
    \/ \E t \in TaskIds, ok \in BOOLEAN : CoroReturn(t, ok)

Spec == Init /\ [][Next]_vars

\* Executions by timer and by execute_now, without configuration updates.
InitExec ==
    /\ v8Available \in BOOLEAN
    /\ ent = [e \in Entities |-> NewEntity]
    /\ registered = {}
    /\ tickers = [e \in Entities |-> 0]
    /\ inst = <<>>
    /\ hist = <<>>
    /\ tasks = [t \in TaskIds |-> NoTask]
    /\ lastDone = NoRuns
    /\ unhandled = FALSE
    /\ now = 0
    /\ stored = [e \in Entities |-> NoConfig]
    /\ host = "off"
    /\ abandoned = NoWorkers
    /\ store = NoStorage
    /\ render = NoRender
    /\ left = [fires |-> MaxFires, manual |-> MaxManual, updates |-> 0, api |-> 0]

NextExec ==
    \/ \E e \in Entities : AddedToHass(e, TRUE)
    \/ \E e \in Entities : RemovedFromHass(e)
    \/ \E i \in 1..Len(inst) : TimerFire(i)
    \/ \E t \in TaskIds : TimerTaskStart(t)
    \/ \E t \in TaskIds : LockGranted(t)
    \/ \E e \in Entities : ExecuteNow(e)
    \/ \E t \in TaskIds, o \in AllOutcomes : EvalDone(t, o, FALSE)
    \/ \E t \in TaskIds, ok \in BOOLEAN : DispatchReturn(t, ok)
    \/ \E t \in TaskIds, ok \in BOOLEAN : CoroReturn(t, ok)

SpecExec == InitExec /\ [][NextExec]_vars

\* The ticker on its own over a long run of timer fires: no execute_now, no
\* configuration update, no removal.
InitTicker ==
    /\ v8Available \in BOOLEAN
    /\ ent = [e \in Entities |-> NewEntity]
    /\ registered = {}
    /\ tickers = [e \in Entities |-> 0]
    /\ inst = <<>>
    /\ hist = <<>>
    /\ tasks = [t \in TaskIds |-> NoTask]
    /\ lastDone = NoRuns
    /\ unhandled = FALSE
    /\ now = 0
    /\ stored = [e \in Entities |-> NoConfig]
    /\ host = "off"
    /\ abandoned = NoWorkers
    /\ store = NoStorage
    /\ render = NoRender
    /\ left = [fires |-> MaxTickerFires, manual |-> 0, updates |-> 0, api |-> 0]

NextTicker ==
    \/ \E e \in Entities : AddedToHass(e, TRUE)
    \/ \E i \in 1..Len(inst) : TimerFire(i)
    \/ \E t \in TaskIds : TimerTaskStart(t)
    \/ \E t \in TaskIds : LockGranted(t)
    \/ \E t \in TaskIds, o \in AllOutcomes : EvalDone(t, o, FALSE)
    \/ \E t \in TaskIds, ok \in BOOLEAN : DispatchReturn(t, ok)
    \/ \E t \in TaskIds, ok \in BOOLEAN : CoroReturn(t, ok)

SpecTicker == InitTicker /\ [][NextTicker]_vars

\* The same with the event loop running every task that can run, every
\* evaluation and every awaited service call coming to an end.
SpecTickerFair ==
    /\ SpecTicker
    /\ WF_vars(\E t \in TaskIds : TimerTaskStart(t))
    /\ WF_vars(\E t \in TaskIds : LockGranted(t))
    /\ WF_vars(\E t \in TaskIds, o \in AllOutcomes : EvalDone(t, o, FALSE))
    /\ WF_vars(\E t \in TaskIds, ok \in BOOLEAN : DispatchReturn(t, ok))
    /\ WF_vars(\E t \in TaskIds, ok \in BOOLEAN : CoroReturn(t, ok))

\* The execution engine: scripts of known and unknown text loaded from storage,
\* under either backend, with the V8 binding installed at any moment.
\* The random call ids of one evaluation are all different here.
EngineOutcomes == {o \in AllOutcomes : o.ids \in {<<>>, <<"r1">>, <<"r1", "r2">>}}

InitEngine ==
    /\ v8Available \in BOOLEAN
    /\ ent = [e \in Entities |-> NewEntity]
    /\ registered = {}
    /\ tickers = [e \in Entities |-> 0]
    /\ inst = <<>>
    /\ hist = <<>>
    /\ tasks = [t \in TaskIds |-> NoTask]
    /\ lastDone = NoRuns
    /\ unhandled = FALSE
    /\ now = 0
    /\ stored \in [Entities -> {[ConfigOf(NewEntity) EXCEPT !.typescript_code = code] :
                                   code \in StoredCodes}]
    /\ host = "off"
    /\ abandoned = NoWorkers
    /\ store = NoStorage
    /\ render = NoRender
    /\ left = [fires |-> MaxEngineFires, manual |-> MaxEngineManual, updates |-> 0, api |-> 0]

NextEngine ==
    \/ \E e \in Entities : AddedToHass(e, TRUE)
    \/ \E i \in 1..Len(inst) : TimerFire(i)
    \/ \E t \in TaskIds : TimerTaskStart(t)
    \/ \E t \in TaskIds : LockGranted(t)
    \/ \E e \in Entities : ExecuteNow(e)
    \/ \E t \in TaskIds, o \in EngineOutcomes : EvalDone(t, o, FALSE)
    \/ \E t \in TaskIds, ok \in BOOLEAN : DispatchReturn(t, ok)
    \/ \E t \in TaskIds, ok \in BOOLEAN : CoroReturn(t, ok)
    \/ Install

SpecEngine == InitEngine /\ [][NextEngine]_vars

\* Scripts of known text that return the value of an expression, under either
\* backend.
InitScript ==
    /\ v8Available \in BOOLEAN
    /\ ent = [e \in Entities |-> NewEntity]
    /\ registered = {}
    /\ tickers = [e \in Entities |-> 0]
    /\ inst = <<>>
    /\ hist = <<>>
    /\ tasks = [t \in TaskIds |-> NoTask]
    /\ lastDone = NoRuns
    /\ unhandled = FALSE
    /\ now = 0
    /\ stored \in [Entities -> {[ConfigOf(NewEntity) EXCEPT !.typescript_code = code] :
                                   code \in ScriptCodes}]
    /\ host = "off"
    /\ abandoned = NoWorkers
    /\ store = NoStorage
    /\ render = NoRender
    /\ left = [fires |-> MaxFires, manual |-> MaxManual, updates |-> 0, api |-> 0]

NextScript ==
    \/ \E e \in Entities : AddedToHass(e, TRUE)
    \/ \E i \in 1..Len(inst) : TimerFire(i)
    \/ \E t \in TaskIds : TimerTaskStart(t)
    \/ \E t \in TaskIds : LockGranted(t)
    \/ \E e \in Entities : ExecuteNow(e)
    \/ \E t \in TaskIds, o \in AllOutcomes : EvalDone(t, o, FALSE)
    \/ Install

SpecScript == InitScript /\ [][NextScript]_vars

\* The life cycle of a ticker: start, restart by an interval change, stop by
\* removal, with timer fires and the clock; the scripts make no service call.
LifeOutcomes == {o \in AllOutcomes : o.calls = <<>>}

InitLife ==
    /\ v8Available \in BOOLEAN
    /\ ent = [e \in Entities |-> NewEntity]
    /\ registered = {}
    /\ tickers = [e \in Entities |-> 0]
    /\ inst = <<>>
    /\ hist = <<>>
    /\ tasks = [t \in TaskIds |-> NoTask]
    /\ lastDone = NoRuns
    /\ unhandled = FALSE
    /\ now = 0
    /\ stored = [e \in Entities |-> NoConfig]
    /\ host = "off"
    /\ abandoned = NoWorkers
    /\ store = NoStorage
    /\ render = NoRender
    /\ left = [fires |-> MaxLifeFires, manual |-> 0, updates |-> MaxLifeUpdates, api |-> 0]

NextLife ==
    \/ \E e \in Entities : AddedToHass(e, TRUE)
    \/ \E e \in Entities : RemovedFromHass(e)
    \/ \E e \in Entities, interval \in UpdateIntervals :
          UpdateConfiguration(e, None, None, None, TRUE, interval, TRUE)
    \/ \E i \in 1..Len(inst) : TimerFire(i)
    \/ \E t \in TaskIds : TimerTaskStart(t)
    \/ \E t \in TaskIds : LockGranted(t)
    \/ \E t \in TaskIds, o \in LifeOutcomes : EvalDone(t, o, FALSE)
    \/ Tick

SpecLife == InitLife /\ [][NextLife]_vars

\* The TickerManager driven through its public methods, in any order and with
\* any interval, with timer fires; the scripts make no service call.
RegisterEntity(e) ==
    /\ left.api > 0
    /\ left' = [left EXCEPT !.api = @ - 1]
    /\ registered' = registered \cup {e}
    /\ lastDone' = NoRuns
    /\ UNCHANGED <<v8Available, abandoned, store, render, ent, tickers, inst, hist, tasks, unhandled, now, stored, host>>

\* What one call of the manager leaves behind, and the record of the call.
ManagerCall(e, m, kind, interval) ==
    /\ left.api > 0
    /\ left' = [left EXCEPT !.api = @ - 1]
    /\ tickers' = m.tickers
    /\ inst' = Collect(m.inst, m.tickers, tasks)
    /\ hist' = CollectHist(m.hist, m.tickers, tasks)
    /\ lastDone' = [NoRuns EXCEPT ![e] =
           [NoRun EXCEPT !.kind = kind, !.inst = tickers[e],
                         !.req = [NoReq EXCEPT !.hasInterval = TRUE,
                                               !.interval = interval]]]
    /\ UNCHANGED <<v8Available, abandoned, store, render, ent, tasks, unhandled, now, stored, host>>

UnregisterEntity(e) ==
    /\ ManagerCall(e, IF tickers[e] # 0 THEN StopTicker(Manager, e) ELSE Manager,
                   "unregister_entity", 0)
    /\ registered' = registered \ {e}

StartTickerCall(e, interval) ==
    /\ ManagerCall(e, StartTicker(Manager, e, interval), "start_ticker", interval)
    /\ UNCHANGED registered

StopTickerCall(e) ==
    /\ ManagerCall(e, StopTicker(Manager, e), "stop_ticker", 0)
    /\ UNCHANGED registered

RestartTickerCall(e, interval) ==
    /\ ManagerCall(e, RestartTicker(Manager, e, interval), "restart_ticker", interval)
    /\ UNCHANGED registered

InitManager ==
    /\ v8Available \in BOOLEAN
    /\ ent = [e \in Entities |-> NewEntity]
    /\ registered = {}
    /\ tickers = [e \in Entities |-> 0]
    /\ inst = <<>>
    /\ hist = <<>>
    /\ tasks = [t \in TaskIds |-> NoTask]
    /\ lastDone = NoRuns
    /\ unhandled = FALSE
    /\ now = 0
    /\ stored = [e \in Entities |-> NoConfig]
    /\ host = "off"
    /\ abandoned = NoWorkers
    /\ store = NoStorage
    /\ render = NoRender
    /\ left = [fires |-> MaxApiFires, manual |-> 0, updates |-> 0, api |-> MaxApiCalls]

NextManager ==
    \/ \E e \in Entities : RegisterEntity(e)
    \/ \E e \in Entities : UnregisterEntity(e)
    \/ \E e \in Entities, interval \in ApiIntervals : StartTickerCall(e, interval)
    \/ \E e \in Entities : StopTickerCall(e)
    \/ \E e \in Entities, interval \in ApiIntervals : RestartTickerCall(e, interval)
    \/ \E i \in 1..Len(inst) : TimerFire(i)
    \/ \E t \in TaskIds : TimerTaskStart(t)
    \/ \E t \in TaskIds : LockGranted(t)
    \/ \E t \in TaskIds, o \in LifeOutcomes : EvalDone(t, o, FALSE)

SpecManager == InitManager /\ [][NextManager]_vars

\* The configuration of an entity: loaded when the entity is added, changed by
\* update_entity and saved, with a storage that can fail either way. Storage
\* starts empty or with a configuration saved by an earlier run of the program.
SavedConfigs ==
    {ConfigOf([NewEntity EXCEPT !.html_template = "<p>", !.css_styles = "p {}",
                                !.typescript_code = "", !.interval = 60])}

InitConfig ==
    /\ v8Available \in BOOLEAN
    /\ ent = [e \in Entities |-> NewEntity]
    /\ registered = {}
    /\ tickers = [e \in Entities |-> 0]
    /\ inst = <<>>
    /\ hist = <<>>
    /\ tasks = [t \in TaskIds |-> NoTask]
    /\ lastDone = NoRuns
    /\ unhandled = FALSE
    /\ now = 0
    /\ stored \in [Entities -> {NoConfig} \cup SavedConfigs]
    /\ host = "off"
    /\ abandoned = NoWorkers
    /\ store = NoStorage
    /\ render = NoRender
    /\ left = [fires |-> 0, manual |-> 0, updates |-> MaxConfigUpdates, api |-> 0]

NextConfig ==
    \/ \E e \in Entities, loadOk \in BOOLEAN : AddedToHass(e, loadOk)
    \/ \E e \in Entities : RemovedFromHass(e)
    \/ \E e \in Entities, html_template \in Templates \cup {None},
          css_styles \in Styles \cup {None}, typescript_code \in Codes \cup {None},
          hasInterval \in BOOLEAN, interval \in UpdateIntervals, saveOk \in BOOLEAN :
          UpdateConfiguration(e, html_template, css_styles, typescript_code,
                              hasInterval, interval, saveOk)

SpecConfig == InitConfig /\ [][NextConfig]_vars

\* Scripts that use the host objects of their scope, while the host's state
\* changes.
HostOutcomes ==
    UNION {HostOutcomesOf(b, v, h) :
             b \in {"v8", "fallback"}, v \in HostStates \cup {"live"}, h \in HostStates}

InitHost ==
    /\ v8Available \in BOOLEAN
    /\ ent = [e \in Entities |-> NewEntity]
    /\ registered = {}
    /\ tickers = [e \in Entities |-> 0]
    /\ inst = <<>>
    /\ hist = <<>>
    /\ tasks = [t \in TaskIds |-> NoTask]
    /\ lastDone = NoRuns
    /\ unhandled = FALSE
    /\ now = 0
    /\ stored = [e \in Entities |-> NoConfig]
    /\ host \in HostStates
    /\ abandoned = NoWorkers
    /\ store = NoStorage
    /\ render = NoRender
    /\ left = [fires |-> MaxFires, manual |-> MaxManual, updates |-> 0, api |-> 0]

NextHost ==
    \/ \E e \in Entities : AddedToHass(e, TRUE)
    \/ \E i \in 1..Len(inst) : TimerFire(i)
    \/ \E t \in TaskIds : TimerTaskStart(t)
    \/ \E t \in TaskIds : LockGranted(t)
    \/ \E e \in Entities : ExecuteNow(e)
    \/ \E t \in TaskIds, o \in HostOutcomes : EvalDone(t, o, FALSE)
    \/ \E t \in TaskIds, ok \in BOOLEAN : DispatchReturn(t, ok)
    \/ \E h \in HostStates : HostChange(h)

SpecHost == InitHost /\ [][NextHost]_vars

\* ---- entities created by the create_entity service: the interval of the
\* request goes into the config entry as it is, and the entity is made of it.
SetupEntry(interval) == [NewEntity EXCEPT !.interval = interval]

InitCreate ==
    /\ v8Available \in BOOLEAN
    /\ ent \in [Entities -> {SetupEntry(interval) : interval \in CreateIntervals}]
    /\ registered = {}
    /\ tickers = [e \in Entities |-> 0]
    /\ inst = <<>>
    /\ hist = <<>>
    /\ tasks = [t \in TaskIds |-> NoTask]
    /\ lastDone = NoRuns
    /\ unhandled = FALSE
    /\ now = 0
    /\ stored \in [Entities -> {NoConfig} \cup SavedConfigs]
    /\ host = "off"
    /\ abandoned = NoWorkers
    /\ store = NoStorage
    /\ render = NoRender
    /\ left = [fires |-> MaxLifeFires, manual |-> 0, updates |-> MaxLifeUpdates, api |-> 0]

NextCreate ==
    \/ \E e \in Entities, loadOk \in BOOLEAN : AddedToHass(e, loadOk)
    \/ \E e \in Entities : RemovedFromHass(e)
    \/ \E e \in Entities, hasInterval \in BOOLEAN, interval \in UpdateIntervals :
          UpdateConfiguration(e, None, None, None, hasInterval, interval, TRUE)
    \/ \E i \in 1..Len(inst) : TimerFire(i)
    \/ \E t \in TaskIds : TimerTaskStart(t)
    \/ \E t \in TaskIds : LockGranted(t)
    \/ \E t \in TaskIds, o \in LifeOutcomes : EvalDone(t, o, FALSE)

SpecCreate == InitCreate /\ [][NextCreate]_vars

\* ---- timeouts with the worker thread in view: evaluations that outlast the
\* timeout stay on their worker, and end there later.
InitWorker ==
    /\ v8Available \in BOOLEAN
    /\ ent = [e \in Entities |-> NewEntity]
    /\ registered = {}
    /\ tickers = [e \in Entities |-> 0]
    /\ inst = <<>>
    /\ hist = <<>>
    /\ tasks = [t \in TaskIds |-> NoTask]
    /\ lastDone = NoRuns
    /\ unhandled = FALSE
    /\ now = 0
    /\ stored = [e \in Entities |-> NoConfig]
    /\ host \in HostStates
    /\ abandoned = NoWorkers
    /\ store = NoStorage
    /\ render = NoRender
    /\ left = [fires |-> MaxFires, manual |-> MaxManual, updates |-> 0, api |-> 0]

NextWorker ==
    \/ \E e \in Entities : AddedToHass(e, TRUE)
    \/ \E i \in 1..Len(inst) : TimerFire(i)
    \/ \E t \in TaskIds : TimerTaskStart(t)
    \/ \E t \in TaskIds : LockGranted(t)
    \/ \E e \in Entities : ExecuteNow(e)
    \/ \E t \in TaskIds, o \in LifeOutcomes, lingers \in BOOLEAN : EvalDone(t, o, lingers)
    \/ \E e \in Entities, sets \in HostStates \cup {None} : WorkerEnd(e, sets)

SpecWorker == InitWorker /\ [][NextWorker]_vars

\* ---- update_entity on an entity whose ticker executes: every combination of
\* template, script and interval, on the default or a stored configuration.
\* The evaluations of the ticker's executions return or raise.
EditOutcomes == {o \in LifeOutcomes : o.kind \in {"ok", "raise"}}

InitEdit ==
    /\ v8Available = TRUE
    /\ ent = [e \in Entities |-> NewEntity]
    /\ registered = {}
    /\ tickers = [e \in Entities |-> 0]
    /\ inst = <<>>
    /\ hist = <<>>
    /\ tasks = [t \in TaskIds |-> NoTask]
    /\ lastDone = NoRuns
    /\ unhandled = FALSE
    /\ now = 0
    /\ stored \in [Entities -> {NoConfig} \cup SavedConfigs]
    /\ host = "off"
    /\ abandoned = NoWorkers
    /\ store = NoStorage
    /\ render = NoRender
    /\ left = [fires |-> MaxEditFires, manual |-> 0, updates |-> MaxEdits, api |-> 0]

NextEdit ==
    \/ \E e \in Entities : AddedToHass(e, TRUE)
    \/ \E e \in Entities, html_template \in Templates \cup {None},
          typescript_code \in Codes \cup {None},
          hasInterval \in BOOLEAN, interval \in UpdateIntervals :
          UpdateConfiguration(e, html_template, None, typescript_code,
                              hasInterval, interval, TRUE)
    \/ \E i \in 1..Len(inst) : TimerFire(i)
    \/ \E t \in TaskIds : TimerTaskStart(t)
    \/ \E t \in TaskIds : LockGranted(t)
    \/ \E t \in TaskIds, o \in EditOutcomes : EvalDone(t, o, FALSE)

SpecEdit == InitEdit /\ [][NextEdit]_vars

\* ---- render_html on one conditional block, for every context and template.
InitRender ==
    /\ v8Available = FALSE
    /\ ent = [e \in Entities |-> NewEntity]
    /\ registered = {}
    /\ tickers = [e \in Entities |-> 0]
    /\ inst = <<>>
    /\ hist = <<>>
    /\ tasks = [t \in TaskIds |-> NoTask]
    /\ lastDone = NoRuns
    /\ unhandled = FALSE
    /\ now = 0
    /\ stored = [e \in Entities |-> NoConfig]
    /\ host = "off"
    /\ abandoned = NoWorkers
    /\ store = NoStorage
    /\ render \in {[NoRender EXCEPT !.context = c, !.template = t] :
                     c \in Contexts, t \in TemplatesOfIf}
    /\ left = [fires |-> 0, manual |-> 0, updates |-> 0, api |-> 0]

NextRender == Render

SpecRender == InitRender /\ [][NextRender]_vars

\* ======================================================== the claims

InFlight(e) == {t \in TaskIds : tasks[t].ent = e /\ tasks[t].pc \in {"eval", "dispatch", "coro"}}

\* C1: for every entity at most one execution of its script is in flight at
\* any moment, whatever the interleaving of timer fires, execute_now requests
\* and restarts (execute_now takes the same lock as a timer fire).
C1_OneExecutionInFlight ==
    \A e \in Entities : Cardinality(InFlight(e)) <= 1

\* C2: once 5 timer-driven executions in a row have failed, the ticker's
\* is_running is false and its timer no longer fires.
C2_DisabledAfterFiveFailures ==
    \A i \in 1..Len(inst) :
        hist[i].consec >= ERROR_THRESHOLD => ~inst[i].is_running /\ ~inst[i].timer

\* C3: a timer-driven execution that fails adds exactly one to the ticker's
\* error_count and sets its last_error to the failure message.
C3_FailureCounted ==
    [][\A e \in Entities :
          (lastDone'[e].kind = "timer" /\ lastDone'[e].failed
              /\ tickers'[e] = lastDone'[e].inst)
          => /\ inst'[lastDone'[e].inst].error_count
                    = inst[lastDone'[e].inst].error_count + 1
             /\ inst'[lastDone'[e].inst].last_error = lastDone'[e].error]_vars

C5_OnlySuccessCounted ==
    [][\A e \in Entities :
          (lastDone'[e].kind = "timer" /\ tickers'[e] = lastDone'[e].inst)
          => IF lastDone'[e].failed
             THEN inst'[lastDone'[e].inst].execution_count
                      = inst[lastDone'[e].inst].execution_count
             ELSE /\ inst'[lastDone'[e].inst].execution_count
                         = inst[lastDone'[e].inst].execution_count + 1
                  /\ inst'[lastDone'[e].inst].last_error = Null]_vars

\* C6: a script that raises never ends a timer fire, an execute_now or the
\* ticker task with an unhandled error: the entity's state is 'error', its
\* last_error the message, its execution result cleared, and the entity's
\* ticker keeps its timer, so later fires still execute.
C6_RaiseBecomesState ==
    /\ ~unhandled
    /\ \A e \in Entities :
          lastDone[e].outcome = "raise" =>
              /\ lastDone[e].failed
              /\ ent[e].state = "error"
              /\ ~ent[e].last_error.null
              /\ ent[e].last_error = lastDone[e].error
              /\ ent[e].execution_result = None
              /\ tickers[e] # 0 =>
                    inst[tickers[e]].is_running /\ inst[tickers[e]].timer

C6_Witness ==
    \E e \in Entities :
        /\ lastDone[e].outcome = "raise"
        /\ lastDone[e].kind = "timer"
        /\ tickers[e] = lastDone[e].inst
        /\ hist[tickers[e]].fails >= 2

C8_NoDispatchAfterFailedEvaluation ==
    /\ \A e \in Entities :
          lastDone[e].outcome \in {"syntax", "raise", "timeout"} =>
              lastDone[e].failed /\ lastDone[e].dispatched = <<>>
    /\ \A t \in TaskIds :
          tasks[t].dispatched # <<>> => tasks[t].outcome \in {"ok", "coro"}

C8_Witness ==
    \E e \in Entities :
        lastDone[e].outcome = "raise" /\ lastDone[e].queued # <<>>

\* C9: for an execution that succeeds, the calls dispatched are exactly the
\* calls the script queued, each once, in the order it queued them.
C9_QueuedCallsDispatchedOnceInOrder ==
    \A e \in Entities :
        (lastDone[e].kind # "none" /\ ~lastDone[e].failed) =>
            lastDone[e].dispatched = lastDone[e].queued

\* C10: when a dispatched call fails against the host, the calls after it are
\* still invoked and the execution's result and the entity's state are what
\* they are without the failure: the execution does not fail.
C10_FailedCallChangesNothing ==
    \A e \in Entities :
        lastDone[e].callFailed =>
            /\ lastDone[e].dispatched = lastDone[e].calls
            /\ ~lastDone[e].failed
            /\ ent[e].state # "error"
            /\ ent[e].execution_result = lastDone[e].result

\* The call services.turnOn('switch.fan') stands for.
TurnOnFan == ServiceCall("homeassistant", "turn_on", "switch.fan")

\* C11: the script "services.turnOn('switch.fan'); return 'done'" yields the
\* result 'done' and exactly one dispatched call, homeassistant.turn_on with
\* entity_id 'switch.fan', under either backend.
C11_FanScriptSameOnBothBackends ==
    \A e \in Entities :
        (lastDone[e].code = "fan" /\ lastDone[e].probed) =>
            /\ ~lastDone[e].failed
            /\ lastDone[e].result = "done"
            /\ ent[e].execution_result = "done"
            /\ lastDone[e].dispatched = <<TurnOnFan>>

\* C12: no call a script queued is invoked against the host before execute
\* has returned the result of that execution to its caller (an execution
\* still in a task has not returned).
C12_DispatchAfterResult ==
    \A t \in TaskIds : tasks[t].pc # "none" => tasks[t].dispatched = <<>>

\* C13: an execute called while the V8 binding is not installed runs the
\* script on the Python fallback, and the caller gets a result, or a failure
\* of the shape execute gives under V8 (RuntimeError "Code execution failed: ").
C13_FallbackWhenUnavailable ==
    /\ \A t \in TaskIds :
          (tasks[t].probed /\ ~tasks[t].available) => tasks[t].backend = "fallback"
    /\ \A e \in Entities :
          (lastDone[e].probed /\ ~lastDone[e].available) =>
              /\ lastDone[e].backend = "fallback"
              /\ lastDone[e].failed =>
                    /\ ~lastDone[e].error.null
                    /\ Head(lastDone[e].error.text) = "Code execution failed: "
                    /\ ent[e].state = "error"
              /\ ~lastDone[e].failed =>
                    /\ lastDone[e].result \in Results
                    /\ ent[e].execution_result = lastDone[e].result

C13_Witness ==
    \E e \in Entities :
        /\ lastDone[e].probed /\ ~lastDone[e].available
        /\ lastDone[e].failed
        /\ ent[e].execution_count >= 2

\* C14: the availability of the backends is probed by the first execute only;
\* every later execute of the engine runs on the backend the first one chose.
C14_ProbedOnce ==
    \A t \in TaskIds :
        tasks[t].pc # "none" /\ tasks[t].kind # "none" /\ tasks[t].backend # "none" =>
            /\ tasks[t].probed => tasks[t].first
            /\ tasks[t].backend = ent[tasks[t].ent].engine_first

\* C15: a blank or whitespace-only script is never evaluated: no execution of
\* it is in flight, and its run ends with no result, no backend chosen, no
\* import tried and no call dispatched; the entity (whose script stays blank,
\* no configuration update being made here) keeps its state and its counter.
C15_BlankScriptNotRun ==
    /\ \A t \in TaskIds :
          tasks[t].pc \in {"eval", "dispatch", "coro"} => tasks[t].code \notin {"", " "}
    /\ \A e \in Entities :
          lastDone[e].outcome = "blank" =>
              /\ lastDone[e].code \in {"", " "}
              /\ lastDone[e].result = None
              /\ ~lastDone[e].failed
              /\ ~lastDone[e].probed
              /\ lastDone[e].backend = "none"
              /\ lastDone[e].dispatched = <<>>
              /\ ent[e].execution_count = 0 /\ ent[e].state = "idle"

C15_Witness ==
    \E e \in Entities :
        /\ lastDone[e].outcome = "blank"
        /\ lastDone[e].code = " "
        /\ lastDone[e].kind = "manual"

\* C16: after restart(entity, new_interval) the entity's ticker is running with
\* the new interval, and its execution_count, error_count and failures in a
\* row are 0 and its last_error null, whatever they were before.
C16_RestartResets ==
    \A e \in Entities :
        lastDone[e].kind = "restart" =>
            /\ tickers[e] # 0
            /\ inst[tickers[e]].is_running /\ inst[tickers[e]].timer
            /\ inst[tickers[e]].interval = ent[e].interval
            /\ inst[tickers[e]].execution_count = 0
            /\ inst[tickers[e]].error_count = 0
            /\ inst[tickers[e]].last_error = Null
            /\ hist[tickers[e]] = NoHist
            /\ is_ticker_running(e)

C16_Witness ==
    \E e \in Entities :
        /\ lastDone[e].kind = "restart"
        /\ lastDone[e].inst # 0
        /\ inst[lastDone[e].inst].execution_count > 0
        /\ inst[tickers[e]].interval # DEFAULT_INTERVAL

\* C17: start with an interval > 0 on an entity without a running ticker
\* leaves its ticker running, with a live periodic timer of that interval and
\* next_execution = the time of the start + the interval.
C17_StartSchedules ==
    \A e \in Entities :
        lastDone[e].kind = "start" =>
            /\ tickers[e] # 0
            /\ inst[tickers[e]].is_running
            /\ inst[tickers[e]].timer
            /\ inst[tickers[e]].interval = ent[e].interval
            /\ inst[tickers[e]].interval > 0
            /\ inst[tickers[e]].next_execution = Time(now + ent[e].interval)

C17_Witness ==
    \E e \in Entities :
        lastDone[e].kind = "start" /\ now > 0 /\ inst[tickers[e]].is_running

\* C18: for every ticker, is_running holds only with a live periodic timer,
\* and a ticker that is not running has no live timer and a null
\* next_execution.
C18_RunningIffTimer ==
    \A i \in 1..Len(inst) :
        /\ inst[i].is_running => inst[i].timer /\ ~inst[i].next_execution.null
        /\ ~inst[i].is_running => ~inst[i].timer /\ inst[i].next_execution.null

C18_Witness ==
    \E t \in TaskIds :
        /\ tasks[t].inst # 0
        /\ inst[tasks[t].inst].entity_id \in Entities
        /\ ~inst[tasks[t].inst].is_running
        /\ inst[tasks[t].inst].execution_count > 0

\* C19: after stop has returned no timer fire of that ticker is acted on: no
\* execution of a stopped ticker begins to run the script (an execution that
\* holds the lock at the stop goes on to its end).
C19_NoExecutionStartsAfterStop ==
    [][\A t \in TaskIds :
          (tasks[t].pc \in {"created", "lock"} /\ tasks'[t].pc = "eval")
          => inst[tasks[t].inst].is_running]_vars

\* C20: once an entity is unregistered its ticker is stopped and gone
\* (is_ticker_running false, get_ticker_info nothing, every timer of the entity
\* cancelled), the entity is no longer registered, and no execution of its
\* script begins any more.
C20_UnregisterDestroys ==
    /\ [](\A e \in Entities :
            ent[e].phase = "removed" =>
                /\ tickers[e] = 0
                /\ ~is_ticker_running(e)
                /\ get_ticker_info(e) = None
                /\ e \notin registered
                /\ \A i \in 1..Len(inst) :
                      inst[i].entity_id = e => ~inst[i].is_running /\ ~inst[i].timer)
    /\ [][\A e \in Entities :
            ent[e].phase = "removed" =>
                /\ ent'[e].execution_count = ent[e].execution_count
                /\ \A t \in TaskIds :
                      (tasks[t].ent = e /\ tasks[t].pc \in {"created", "lock"})
                      => tasks'[t].pc # "eval"]_vars

C20_Witness ==
    \E e \in Entities :
        /\ ent[e].phase = "removed"
        /\ lastDone[e].outcome = "unregistered"
        /\ lastDone[e].kind = "timer"

C22_InvalidStartRejected ==
    [][\A e \in Entities :
          (/\ lastDone'[e].kind \in {"start_ticker", "restart_ticker"}
           /\ lastDone'[e].req.interval <= 0)
          => /\ tickers' = tickers
             /\ inst' = inst
             /\ hist' = hist
             /\ tasks' = tasks]_vars

\* C29: once stop_ticker or unregister_entity has returned, an execution that
\* was waiting (its task not yet run, or queued for the lock) does not begin
\* to run the entity's script: only a task of the ticker the manager still
\* holds for the entity does.
C29_WaitingFiresDoNotRunAfterStop ==
    [][\A t \in TaskIds :
          (/\ tasks[t].kind = "timer"
           /\ tasks[t].pc \in {"created", "lock"}
           /\ tasks'[t].pc = "eval")
          => tickers[tasks[t].ent] = tasks[t].inst]_vars

\* C30: a ticker is in the manager's table only for an entity that is
\* registered.
C30_TickerOnlyForRegistered ==
    \A e \in Entities : tickers[e] # 0 => e \in registered

\* C23: when the save to storage fails during update_configuration, the entity
\* holds every value the update gave (template, styles, script, clamped
\* interval), a changed interval has restarted the ticker, and no exception
\* leaves the update; when the load fails as the entity is added, the entity
\* keeps its defaults and its ticker is started.
C23_StorageFailureKeepsMemory ==
    \A e \in Entities :
        LET r == lastDone[e]
            q == r.req
        IN /\ (r.kind \in {"restart", "update"} /\ ~q.saveOk) =>
                /\ q.html_template # None => ent[e].html_template = q.html_template
                /\ q.css_styles # None => ent[e].css_styles = q.css_styles
                /\ q.typescript_code # None => ent[e].typescript_code = q.typescript_code
                /\ q.hasInterval =>
                      /\ ent[e].interval >= 1 /\ ent[e].interval <= 3600
                      /\ q.interval \in 1..3600 => ent[e].interval = q.interval
                /\ r.kind = "restart" =>
                      /\ is_ticker_running(e)
                      /\ inst[tickers[e]].interval = ent[e].interval
                /\ ~unhandled
           /\ (r.kind = "start" /\ ~q.loadOk) =>
                /\ ent[e].html_template = NewEntity.html_template
                /\ ent[e].css_styles = NewEntity.css_styles
                /\ ent[e].typescript_code = NewEntity.typescript_code
                /\ ent[e].interval = NewEntity.interval
                /\ is_ticker_running(e)
                /\ inst[tickers[e]].interval = NewEntity.interval
                /\ ~unhandled

\* An update whose save failed changed the entity, and storage still holds
\* something else.
C23_Witness ==
    \E e \in Entities :
        /\ lastDone[e].kind \in {"restart", "update"}
        /\ ~lastDone[e].req.saveOk
        /\ lastDone[e].outcome = "updated"
        /\ lastDone[e].req.html_template # None
        /\ stored[e] # ConfigOf(ent[e])

\* The tasks of TickerInstance i that have not taken the lock yet, and those
\* that hold it.
Waiting(i) == {t \in TaskIds : tasks[t].inst = i /\ tasks[t].pc \in {"created", "lock"}}
Holding(i) == {t \in TaskIds : tasks[t].inst = i /\ tasks[t].pc \in {"eval", "dispatch", "coro"}}

\* The executions TickerInstance i has started: those that came to an end
\* (each counted once, as a success or as an error) and the one in progress.
Started(i) == inst[i].execution_count + inst[i].error_count + Cardinality(Holding(i))

\* C26: every timer fire delivered while the ticker is running makes exactly
\* one execution attempt: the fires delivered are the executions started plus
\* the tasks still waiting, at most one execution of the ticker runs at a
\* time, and when executions end every fire's execution is eventually started.
C26_EveryFireExecutesOnce ==
    /\ [](\A i \in 1..Len(inst) :
            /\ hist[i].fired = Started(i) + Cardinality(Waiting(i))
            /\ Cardinality(Holding(i)) <= 1)
    /\ \A n \in 1..(MaxTickerFires + 1) :
          (\E i \in 1..Len(inst) : hist[i].fired >= n)
          ~> (\E i \in 1..Len(inst) : Started(i) >= n)

\* A fire arrived while an earlier execution held the lock, and its task
\* waits for the lock behind it.
C26_Witness ==
    \E i \in 1..Len(inst) :
        /\ Started(i) >= 2
        /\ Holding(i) # {}
        /\ \E t \in Waiting(i) : tasks[t].pc = "lock"

\* The script that differs from `code` only in that its comparison is written
\* without the third "=".
Loose(code) == IF code = "seq" THEN "eq" ELSE "ne"

\* C27: under either backend a script that compares with === (or !==) comes
\* to the result the same script comes to with == (or !=).
C27_StrictEqualsLoose ==
    \A e \in Entities :
        LET r == lastDone[e]
        IN (r.probed /\ r.code \in {"seq", "sne"}) =>
              \E o \in ScriptOutcomes(Loose(r.code), r.backend) :
                  /\ (o.kind = "ok") = ~r.failed
                  /\ o.result = r.result

\* C28: a script that is the one expression 'done', without return, returns
\* 'done' under either backend.
C28_ExpressionValueReturned ==
    \A e \in Entities :
        (lastDone[e].probed /\ lastDone[e].code = "expr") =>
            /\ ~lastDone[e].failed
            /\ lastDone[e].result = "done"
            /\ ent[e].execution_result = "done"

\* C24: under either backend no service of the host is invoked while a script
\* is being evaluated: an execution under evaluation has dispatched nothing,
\* and no execution has invoked a service from inside its evaluation.
C24_NoHostCallDuringEvaluation ==
    /\ \A t \in TaskIds :
          /\ tasks[t].invoked = <<>>
          /\ tasks[t].pc = "eval" => tasks[t].dispatched = <<>>
    /\ \A e \in Entities : lastDone[e].invoked = <<>>

\* C25: under either backend the end of a script's evaluation leaves the
\* host's state as it was, and a script that returns the state it reads in
\* `states` returns the state of the start of its execution.
C25_StatesViewIsSnapshot ==
    [][\A t \in TaskIds :
          (tasks[t].pc = "eval" /\ tasks'[t].pc # "eval") =>
              /\ host' = host
              /\ lastDone'[tasks[t].ent].access = "read" =>
                    lastDone'[tasks[t].ent].result = tasks[t].atStart]_vars

\* C31: the interval of every entity that was added, and the interval of its
\* ticker, lie in 1..3600, however the interval was set: at creation, by the
\* configuration loaded at startup, or by update_configuration.
C31_IntervalInRange ==
    \A e \in Entities :
        ent[e].phase = "added" =>
            /\ ent[e].interval \in MIN_INTERVAL..MAX_INTERVAL
            /\ tickers[e] # 0 =>
                  inst[tickers[e]].interval \in MIN_INTERVAL..MAX_INTERVAL

\* C32: whenever no execution of an entity is in flight, the entity's
\* last_error is null if and only if the execution that completed last
\* succeeded, for any interleaving of execute_now and timer fires.
C32_LastErrorOfLastExecution ==
    \A e \in Entities :
        (lastDone[e].kind \in {"timer", "manual"} /\ lastDone[e].probed
         /\ InFlight(e) = {}) =>
            ((ent[e].last_error = Null) <=> ~lastDone[e].failed)

\* C33: when an execution has ended with a timeout its evaluation runs on no
\* worker any more: none is left behind by the execution that just reported
\* the timeout, and none runs while a later execution of the entity is in
\* flight.
C33_TimedOutEvaluationStopped ==
    \A e \in Entities :
        /\ lastDone[e].outcome = "timeout" => abandoned[e] = "none"
        /\ InFlight(e) # {} => abandoned[e] = "none"

\* The TickerInstances of entity e whose periodic timer is live.
LiveTimers(e) == {i \in 1..Len(inst) : inst[i].entity_id = e /\ inst[i].timer}

\* C34: for each entity at most one periodic timer is live at any time, and
\* it is the timer of the ticker in the manager's table, across any sequence
\* of start_ticker, stop_ticker, restart_ticker, register and unregister.
C34_OneLiveTimer ==
    \A e \in Entities :
        /\ Cardinality(LiveTimers(e)) <= 1
        /\ LiveTimers(e) \subseteq {tickers[e]}

\* start_ticker or restart_ticker on an entity that had a ticker: the old
\* ticker is still alive in a task, its timer cancelled, the new one runs.
C34_Witness ==
    \E e \in Entities :
        /\ lastDone[e].kind \in {"start_ticker", "restart_ticker"}
        /\ lastDone[e].inst # 0
        /\ tickers[e] # 0
        /\ tickers[e] # lastDone[e].inst
        /\ inst[tickers[e]].timer
        /\ inst[lastDone[e].inst].entity_id = e
        /\ ~inst[lastDone[e].inst].timer

Quiet == \A o \in OpIds : store.ops[o].kind = "none"

\* C35: once the calls of async_save_entity_config have completed, however
\* they interleaved at their awaits, async_load_entity_config returns for each
\* entity the configuration last saved for it, also when the storage was
\* empty and not yet loaded before the calls.
C35_InterleavedSavesBothStored ==
    (/\ Quiet
     /\ \A i \in 1..Len(store.called) : store.called[i].kind = "save"
     /\ \A i, j \in 1..Len(store.called) :
           i # j => store.called[i].key # store.called[j].key) =>
        \A k \in StorageIds :
            store.saved[k] # Untouched => Stored(store, k) = store.saved[k]

\* C36: with one call at a time, async_load_entity_config(e) returns the
\* configuration the last save put there for e, and nothing after a remove;
\* and the stored configuration of an entity changes only in a save or a
\* remove for that entity.
C36_SaveLoadRemove ==
    /\ [](store.done.kind = "load" /\ store.saved[store.done.key] # Untouched =>
             store.done.result = store.saved[store.done.key])
    /\ [][\A k \in StorageIds :
             Stored(store', k) # Stored(store, k) =>
                 \E o \in OpIds : /\ store'.ops[o].kind \in {"save", "remove"}
                                  /\ store'.ops[o].key = k]_vars

\* A load returned the configuration saved for its entity, after a remove for
\* the other entity that left nothing stored for that one.
C36_Witness ==
    /\ store.done.kind = "load"
    /\ store.done.result \in StorageConfigs
    /\ store.done.result = store.saved[store.done.key]
    /\ \E k \in StorageIds \ {store.done.key} :
          /\ store.saved[k] = NoConfig
          /\ Stored(store, k) = NoConfig

\* C37: update_configuration without an interval, or with the interval the
\* entity has, leaves the entity's ticker as it is (same TickerInstance, timer,
\* next_execution, counters, last_error) whatever else it changes, and when no
\* field differs nothing is written to storage.
C37_NoIntervalChangeKeepsTicker ==
    [][\A e \in Entities :
          LET r == lastDone'[e]
          IN (r.kind \in {"update", "restart"}
              /\ (~r.req.hasInterval \/ r.req.interval = ent[e].interval)) =>
                 /\ r.kind = "update"
                 /\ tickers' = tickers
                 /\ inst' = inst
                 /\ r.outcome = "same" => stored' = stored]_vars

\* An update that changed the script and passed the interval the entity has,
\* on a ticker that had already executed.
C37_Witness ==
    \E e \in Entities :
        /\ lastDone[e].kind = "update"
        /\ lastDone[e].outcome = "updated"
        /\ lastDone[e].req.typescript_code # None
        /\ lastDone[e].req.hasInterval
        /\ lastDone[e].req.interval = ent[e].interval
        /\ tickers[e] # 0
        /\ inst[tickers[e]].execution_count > 0

\* C38: update_configuration with an interval whose clamped value is the
\* interval the entity has (5000 when it has 3600) does not restart the
\* ticker: the TickerInstance, its timer, next_execution and counters stay.
C38_ClampedEqualKeepsTicker ==
    [][\A e \in Entities :
          LET r == lastDone'[e]
              i == r.req.interval
              clamped == IF i < MIN_INTERVAL THEN MIN_INTERVAL
                         ELSE IF i > MAX_INTERVAL THEN MAX_INTERVAL ELSE i
          IN (r.kind \in {"update", "restart"} /\ r.req.hasInterval
              /\ clamped = ent[e].interval) =>
                 /\ r.kind = "update"
                 /\ tickers' = tickers
                 /\ inst' = inst]_vars

\* get_ticker_info(e) returns a record and not None.
HasTickerInfo(e) == tickers[e] # 0

\* C39: is_ticker_running(e) holds if and only if get_ticker_info(e) returns
\* a record: every ticker in the manager's table is running, and a stopped
\* ticker is not left in the table.
C39_RunningIffInfo ==
    \A e \in Entities :
        /\ is_ticker_running(e) <=> HasTickerInfo(e)
        /\ HasTickerInfo(e) => get_ticker_info(e).is_running

\* stop_ticker or unregister_entity on an entity that had a ticker: the
\* stopped ticker is still alive in a task and is not in the table.
C39_Witness ==
    \E e \in Entities :
        /\ lastDone[e].kind \in {"stop_ticker", "unregister_entity"}
        /\ lastDone[e].inst # 0
        /\ inst[lastDone[e].inst].entity_id = e
        /\ ~inst[lastDone[e].inst].is_running
        /\ ~HasTickerInfo(e)
        /\ ~is_ticker_running(e)

\* Whether the block of the template is to render in the context: for
\* "variable == value" the context's value, as a string, is value; for
\* "variable" the context's value is truthy.
ShouldRender(template, context) ==
    LET condition == template.condition
        at == FindChars(condition, <<" ", "=", "=", " ">>)
        var == IF at > 0 THEN StripChars(SubSeq(condition, 1, at - 1))
               ELSE StripChars(condition)
        got == GetNestedValue(context, var)
    IN IF at > 0
       THEN got.found /\ got.value.str = StripChars(SubSeq(condition, at + 4, Len(condition)))
       ELSE got.found /\ got.value.bool

\* C40: render_html renders the content of {% if variable == value %} if and
\* only if the context's value of the variable, as a string, equals value,
\* and the content of {% if variable %} if and only if the context's value is
\* truthy; otherwise the block renders as empty.
C40_ConditionalFollowsContext ==
    render.done =>
        render.out = IF ShouldRender(render.template, render.context)
                     THEN render.template.content ELSE <<>>
====
